---- MODULE Spec2Model ----
(***************************************************************************)
(* Model of the workbook image merger of qrcode_product:                   *)
(* WriteExcelFile.insertImagesSafely and the helpers it calls              *)
(* (src/src/service/write_excel_file.ts).                                  *)
(*                                                                         *)
(* A file path is a sequence of tokens (<<"dir", "/", "book", ".xlsx">>),  *)
(* a cell address a sequence of one-character strings (<<"G", "2">>), a    *)
(* file's bytes a record [kind, rev, media].  The file system is a         *)
(* function from paths to bytes.  What the libraries decide (a copy or a   *)
(* write that throws, an image registration that throws) is drawn          *)
(* nondeterministically.                                                   *)
(***************************************************************************)
EXTENDS Integers, Sequences, FiniteSets, TLC

VARIABLES
    fs,             \* file system: path -> bytes
    pc,             \* position of the merge call
    excelPath,      \* argument: target workbook path
    images,         \* argument: the placements (ImageOptions[])
    worksheetName,  \* argument: requested worksheet ("" = not given)
    backupPath,     \* local: <<>> is null, <<p>> the backup path
    validImages,    \* local: indices of `images` that passed the filter
    workbook,       \* local: the in-memory workbook
    worksheet,      \* local: name of the resolved worksheet
    i,              \* local: loop index of the batch loop (0-based)
    insertedCount,  \* local: insertedCount
    thrown,         \* the error caught by the outer catch ({} = none)
    outcome,        \* the returned WriteResult ({} = not returned yet)
    preBytes,       \* history: the target's bytes when the call began
    trace,          \* history: the steps taken, in order
    batches,        \* history: the batches the loop has processed, in order
    attempted,      \* history: indices passed to insertSingleImage, in order
    fallbackTried,  \* history: indices whose base64 registration was tried
    succeeded       \* history: indices whose insertSingleImage returned true

VARIABLES
    cellText,       \* parseCellAddress: its argument
    cellInfo,       \* parseCellAddress: its result ({} = not called yet)
    address,        \* the (column, row) pair an address is encoded from
    encoded,        \* the address encoded from cellInfo ({} = not yet)
    imageFile,      \* isValidImageFile: the file behind its argument
    admitted        \* isValidImageFile: its result ({} = not called yet)

VARIABLES
    stage,          \* index(): position of the orchestrator
    data,           \* index(): the row array read from the worksheet
    folderExists,   \* the image output folder exists
    qrFiles,        \* the image files of the output folder, by identifier
    staffList,      \* index(): staffList
    imageConfigs,   \* index(): imageConfigs
    validImageConfigs   \* index(): validImageConfigs

VARIABLES
    qrSuccessCount, \* index(): qrSuccessCount
    qrAttempts,     \* history: the generateQRCode calls, in order
    qrReturn,       \* generateQRCode: how its last call ended ({} = none)
    loopIndex,      \* index(): i of the generation loop
    qrPauses        \* history: the values of i + 1 the loop paused after

VARIABLES
    pass,           \* two-worksheet index(): the worksheet being processed
    step,           \* two-worksheet index(): its position in the pass
    ran,            \* history: the steps executed, in order
    disk,           \* the workbook files: original, working copy, backup
    sheets,         \* the worksheets of the original workbook
    folders,        \* the image folders and their entries
    cleared,        \* clearFolder: its return value ({} = not called)
    rosters,        \* staffList and familyList, as identifiers
    generated,      \* the identifiers each pass generated an image for
    plans,          \* validImageConfigs of each pass, as identifiers
    results,        \* insertResult and family_insertResult ({} = none)
    log,            \* the lines the run reported
    failure,        \* the error index() rethrew ({} = none)
    verifyReads     \* the file each verification read, and how it ended

mergeVars == <<fs, pc, excelPath, images, worksheetName, backupPath,
               validImages, workbook, worksheet, i, insertedCount, thrown,
               outcome, preBytes, trace, batches, attempted, fallbackTried,
               succeeded>>

codecVars == <<cellText, cellInfo, address, encoded>>

admitVars == <<imageFile, admitted>>

planVars == <<stage, data, folderExists, qrFiles, staffList, imageConfigs,
              validImageConfigs>>

genVars == <<qrSuccessCount, qrAttempts, qrReturn, loopIndex, qrPauses>>

runVars == <<pass, step, ran, disk, sheets, folders, cleared, rosters,
             generated, plans, results, log, failure, verifyReads>>

otherVars == <<codecVars, admitVars, planVars, genVars, runVars>>

vars == <<mergeVars, otherVars>>

-----------------------------------------------------------------------------
(* Bounds of the model *)

MaxImages == 11

-----------------------------------------------------------------------------
(* Program constants *)

batchSize == 5

MaxImageBytes == 10 * 1024 * 1024

ValidExtensions == {".png", ".jpg", ".jpeg", ".gif", ".bmp"}

Letters == <<"A", "B", "C", "D", "E", "F", "G", "H", "I", "J", "K", "L", "M",
             "N", "O", "P", "Q", "R", "S", "T", "U", "V", "W", "X", "Y", "Z">>

Digits == <<"0", "1", "2", "3", "4", "5", "6", "7", "8", "9">>

-----------------------------------------------------------------------------
(* Small helpers *)

Min(a, b) == IF a < b THEN a ELSE b

Range(s) == {s[k] : k \in 1..Len(s)}

IndexIn(s, c) == CHOOSE k \in 1..Len(s) : s[k] = c

-----------------------------------------------------------------------------
(* Paths: String.prototype.replace(".xlsx", r) replaces the FIRST          *)
(* occurrence of the token ".xlsx" and leaves a path without one unchanged *)

FirstIndex(path, tok) ==
    IF tok \in Range(path)
    THEN CHOOSE k \in 1..Len(path) :
            /\ path[k] = tok
            /\ \A j \in 1..(k - 1) : path[j] # tok
    ELSE 0

ReplaceFirst(path, tok, repl) ==
    LET k == FirstIndex(path, tok)
    IN  IF k = 0 THEN path
        ELSE SubSeq(path, 1, k - 1) \o repl \o SubSeq(path, k + 1, Len(path))

LastSlash(path) ==
    IF "/" \in Range(path)
    THEN CHOOSE k \in 1..Len(path) :
            /\ path[k] = "/"
            /\ \A j \in (k + 1)..Len(path) : path[j] # "/"
    ELSE 0

DirName(path) == SubSeq(path, 1, LastSlash(path) - 1)

BaseName(path) == SubSeq(path, LastSlash(path) + 1, Len(path))

BackupPathOf(filePath) ==
    ReplaceFirst(filePath, ".xlsx", <<"_backup_", "timestamp", ".xlsx">>)

(* The target paths a call is given *)
PathLower == <<"data", "/", "record", ".xlsx">>
PathUpper == <<"data", "/", "RECORD", ".XLSX">>
PathDotted == <<"data", ".xlsx", ".d", "/", "record", ".xlsx">>
PathAbsent == <<"data", "/", "nofile", ".xlsx">>

TargetPaths == {PathLower, PathUpper, PathDotted, PathAbsent}

(* The backup index() makes of its workbook before it calls the merge:    *)
(* filePath.replace(".xlsx", `_backup_${Date.now()}.xlsx`)                 *)
IndexBackupPath ==
    ReplaceFirst(PathLower, ".xlsx", <<"_backup_", "now", ".xlsx">>)

AllPaths ==
    TargetPaths \cup {BackupPathOf(p) : p \in TargetPaths}
    \cup {IndexBackupPath}

(* Directories are never created by the merger *)
Directories == {DirName(p) : p \in TargetPaths}

-----------------------------------------------------------------------------
(* File contents *)

Absent == [kind |-> "absent", rev |-> 0, media |-> <<>>]

Partial == [kind |-> "partial", rev |-> 0, media |-> <<>>]

OriginalBytes == [kind |-> "workbook", rev |-> 0, media |-> <<>>]

WorkbookSheets == <<"Sheet1", "Sheet2">>

Exists(path) == path \in DOMAIN fs /\ fs[path].kind # "absent"

(* fs.copyFileSync(src, dest): the file systems a copy can leave behind.   *)
(* ok = TRUE when it returns, FALSE when it throws.  A copy of a file onto *)
(* itself changes nothing; a copy into a missing directory or of a missing *)
(* file throws before dest is touched; a copy that throws after dest was   *)
(* opened removes dest, or leaves it truncated when the removal fails too. *)
CopyFileOutcomes(src, dest) ==
    IF ~Exists(src) \/ DirName(dest) \notin Directories
    THEN {[ok |-> FALSE, fs |-> fs]}
    ELSE IF src = dest
    THEN {[ok |-> TRUE, fs |-> fs], [ok |-> FALSE, fs |-> fs]}
    ELSE {[ok |-> TRUE, fs |-> [fs EXCEPT ![dest] = fs[src]]],
          [ok |-> FALSE, fs |-> fs],
          [ok |-> FALSE, fs |-> [fs EXCEPT ![dest] = Absent]],
          [ok |-> FALSE, fs |-> [fs EXCEPT ![dest] = Partial]]}

-----------------------------------------------------------------------------
(* parseCellAddress: /^([A-Z]+)(\d+)$/, then base-26 letters and parseInt  *)

IsLetter(c) == c \in Range(Letters)

IsDigit(c) == c \in Range(Digits)

RECURSIVE ColumnValue(_)
ColumnValue(colStr) ==
    IF colStr = <<>> THEN 0
    ELSE ColumnValue(SubSeq(colStr, 1, Len(colStr) - 1)) * 26
         + IndexIn(Letters, colStr[Len(colStr)])

RECURSIVE ParseInt(_)
ParseInt(rowStr) ==
    IF rowStr = <<>> THEN 0
    ELSE ParseInt(SubSeq(rowStr, 1, Len(rowStr) - 1)) * 10
         + (IndexIn(Digits, rowStr[Len(rowStr)]) - 1)

CellMatches(cell) ==
    \E k \in 1..(Len(cell) - 1) :
        /\ \A j \in 1..k : IsLetter(cell[j])
        /\ \A j \in (k + 1)..Len(cell) : IsDigit(cell[j])

LettersEnd(cell) ==
    CHOOSE k \in 1..(Len(cell) - 1) :
        /\ \A j \in 1..k : IsLetter(cell[j])
        /\ \A j \in (k + 1)..Len(cell) : IsDigit(cell[j])

(* Variant: the pattern carries the i flag, so lowercase letters match *)
ToUpperCase(cell) ==
    [j \in 1..Len(cell) |->
        CASE cell[j] = "a" -> "A"
          [] cell[j] = "g" -> "G"
          [] cell[j] = "z" -> "Z"
          [] OTHER -> cell[j]]

parseCellAddressIgnoreCase(cell) ==
    IF ~CellMatches(ToUpperCase(cell))
    THEN [ok |-> FALSE, col |-> 0, row |-> 0]
    ELSE [ok |-> TRUE,
          col |-> ColumnValue(SubSeq(ToUpperCase(cell), 1,
                                     LettersEnd(ToUpperCase(cell)))),
          row |-> ParseInt(SubSeq(cell, LettersEnd(ToUpperCase(cell)) + 1,
                                  Len(cell)))]

(* Variant: the column is returned zero-based, as the anchor wants it *)
parseCellAddressZeroBased(cell) ==
    IF ~CellMatches(cell)
    THEN [ok |-> FALSE, col |-> 0, row |-> 0]
    ELSE [ok |-> TRUE,
          col |-> ColumnValue(SubSeq(cell, 1, LettersEnd(cell))) - 1,
          row |-> ParseInt(SubSeq(cell, LettersEnd(cell) + 1, Len(cell)))]

parseCellAddress(cell) ==
    IF ~CellMatches(cell)
    THEN [ok |-> FALSE, col |-> 0, row |-> 0]
    ELSE [ok |-> TRUE,
          col |-> ColumnValue(SubSeq(cell, 1, LettersEnd(cell))),
          row |-> ParseInt(SubSeq(cell, LettersEnd(cell) + 1, Len(cell)))]

(* `G${index + 2}`: the decimal digits of a positive number *)
RECURSIVE NumToDigits(_)
NumToDigits(n) ==
    IF n < 10 THEN <<Digits[n + 1]>>
    ELSE NumToDigits(n \div 10) \o <<Digits[(n % 10) + 1]>>

-----------------------------------------------------------------------------
(* Images *)

ToLowerCase(ext) ==
    CASE ext = ".PNG" -> ".png"
      [] ext = ".Png" -> ".png"
      [] ext = ".JPG" -> ".jpg"
      [] ext = ".JPEG" -> ".jpeg"
      [] ext = ".GIF" -> ".gif"
      [] ext = ".BMP" -> ".bmp"
      [] OTHER -> ext

(* Variant: the ceiling comparison is >= instead of > *)
isValidImageFileBelowCeiling(img) ==
    IF ~img.exists THEN FALSE
    ELSE IF ~img.statOk THEN FALSE
    ELSE IF img.size = 0 THEN FALSE
    ELSE IF img.size >= MaxImageBytes THEN FALSE
    ELSE IF ToLowerCase(img.ext) \notin ValidExtensions THEN FALSE
    ELSE TRUE

(* The console.warn branch isValidImageFile takes ("" = none) *)
ImageWarning(img) ==
    IF ~img.exists THEN "missing"
    ELSE IF ~img.statOk THEN "error"
    ELSE IF img.size = 0 THEN "empty"
    ELSE IF img.size > MaxImageBytes THEN "too-large"
    ELSE IF ToLowerCase(img.ext) \notin ValidExtensions THEN "unsupported"
    ELSE ""

isValidImageFile(img) ==
    IF ~img.exists THEN FALSE
    ELSE IF ~img.statOk THEN FALSE
    ELSE IF img.size = 0 THEN FALSE
    ELSE IF img.size > MaxImageBytes THEN FALSE
    ELSE IF ToLowerCase(img.ext) \notin ValidExtensions THEN FALSE
    ELSE TRUE

(* The switch of insertSingleImage; "" is its default branch, which throws *)
StandardExt(ext) ==
    CASE ext \in {".jpg", ".jpeg"} -> "jpeg"
      [] ext = ".png" -> "png"
      [] ext = ".gif" -> "gif"
      [] OTHER -> ""

(* Mutant: a failed filename registration is not retried with base64 *)
insertSingleImageNoFallback(img) ==
    IF ~parseCellAddress(img.cell).ok
    THEN [ok |-> FALSE, fallback |-> FALSE, why |-> "cell"]
    ELSE IF StandardExt(ToLowerCase(img.ext)) = ""
    THEN [ok |-> FALSE, fallback |-> FALSE, why |-> "format"]
    ELSE IF img.primary
    THEN [ok |-> TRUE, fallback |-> FALSE, why |-> ""]
    ELSE [ok |-> FALSE, fallback |-> FALSE, why |-> "register"]

(* insertSingleImage: ok is its return value, fallback whether the base64  *)
(* registration was tried, why the reason of a false return                *)
insertSingleImage(img) ==
    IF ~parseCellAddress(img.cell).ok
    THEN [ok |-> FALSE, fallback |-> FALSE, why |-> "cell"]
    ELSE IF StandardExt(ToLowerCase(img.ext)) = ""
    THEN [ok |-> FALSE, fallback |-> FALSE, why |-> "format"]
    ELSE IF img.primary
    THEN [ok |-> TRUE, fallback |-> FALSE, why |-> ""]
    ELSE IF img.fallback
    THEN [ok |-> TRUE, fallback |-> TRUE, why |-> ""]
    ELSE [ok |-> FALSE, fallback |-> TRUE, why |-> "register"]

(* The kinds of image a placement list is built from: col is the column    *)
(* part of the placement's cell, primary and fallback what the workbook's  *)
(* addImage does with the file (TRUE returns, FALSE throws)                *)
Kind(exists, size, ext, col, primary, fallback) ==
    [exists |-> exists, statOk |-> TRUE, size |-> size, ext |-> ext,
     col |-> col, primary |-> primary, fallback |-> fallback]

KGood == Kind(TRUE, 2048, ".png", <<"G">>, TRUE, TRUE)
KJpg == Kind(TRUE, 2048, ".JPG", <<"G">>, TRUE, TRUE)
KGif == Kind(TRUE, 2048, ".gif", <<"A", "A">>, TRUE, TRUE)
KBmp == Kind(TRUE, 2048, ".bmp", <<"G">>, TRUE, TRUE)
KTxt == Kind(TRUE, 2048, ".txt", <<"G">>, TRUE, TRUE)
KMissing == Kind(FALSE, 0, ".png", <<"G">>, TRUE, TRUE)
KEmpty == Kind(TRUE, 0, ".png", <<"G">>, TRUE, TRUE)
KLargest == Kind(TRUE, MaxImageBytes, ".png", <<"G">>, TRUE, TRUE)
KTooLarge == Kind(TRUE, MaxImageBytes + 1, ".png", <<"G">>, TRUE, TRUE)
KBadCell == Kind(TRUE, 2048, ".png", <<"g">>, TRUE, TRUE)
KFallback == Kind(TRUE, 2048, ".png", <<"G">>, FALSE, TRUE)
KBroken == Kind(TRUE, 2048, ".png", <<"G">>, FALSE, FALSE)

Kinds == {KGood, KJpg, KGif, KBmp, KTxt, KMissing, KEmpty, KLargest,
          KTooLarge, KBadCell, KFallback, KBroken}

BaseKinds == {KGood, KMissing}

ImageOf(kind, k) ==
    [exists |-> kind.exists, statOk |-> kind.statOk, size |-> kind.size,
     ext |-> kind.ext,
     cell |-> kind.col \o NumToDigits(k + 1),
     primary |-> kind.primary, fallback |-> kind.fallback]

(* A list of n placements of kind base, the one at pos of kind special *)
MakeImages(n, base, special, pos) ==
    [k \in 1..n |-> ImageOf(IF k = pos THEN special ELSE base, k)]

-----------------------------------------------------------------------------
(* State after construction: the workbooks exist, no call is running *)

CodecIdle ==
    /\ cellText = <<>>
    /\ cellInfo = {}
    /\ address = {}
    /\ encoded = {}

AdmitIdle ==
    /\ imageFile = [exists |-> FALSE, statOk |-> TRUE, size |-> 0,
                    ext |-> ""]
    /\ admitted = {}

PlanIdle ==
    /\ stage = "idle"
    /\ data = <<>>
    /\ folderExists = FALSE
    /\ qrFiles = <<>>
    /\ staffList = <<>>
    /\ imageConfigs = <<>>
    /\ validImageConfigs = <<>>

GenIdle ==
    /\ qrSuccessCount = 0
    /\ qrAttempts = <<>>
    /\ qrReturn = {}
    /\ loopIndex = 0
    /\ qrPauses = <<>>

RunIdle ==
    /\ pass = ""
    /\ step = "idle"
    /\ ran = <<>>
    /\ disk = <<>>
    /\ sheets = {}
    /\ folders = <<>>
    /\ cleared = {}
    /\ rosters = <<>>
    /\ generated = <<>>
    /\ plans = <<>>
    /\ results = <<>>
    /\ log = {}
    /\ failure = {}
    /\ verifyReads = <<>>

MergeIdle ==
    /\ fs = [p \in AllPaths |->
                IF p \in {PathLower, PathUpper, PathDotted}
                THEN OriginalBytes ELSE Absent]
    /\ pc = "Idle"
    /\ excelPath = <<>>
    /\ images = <<>>
    /\ worksheetName = ""
    /\ backupPath = <<>>
    /\ validImages = <<>>
    /\ workbook = Absent
    /\ worksheet = ""
    /\ i = 0
    /\ insertedCount = 0
    /\ thrown = {}
    /\ outcome = {}
    /\ preBytes = Absent
    /\ trace = <<>>
    /\ batches = <<>>
    /\ attempted = <<>>
    /\ fallbackTried = {}
    /\ succeeded = {}

Init == MergeIdle /\ CodecIdle /\ AdmitIdle /\ PlanIdle /\ GenIdle /\ RunIdle

locals == <<backupPath, validImages, workbook, worksheet, i, insertedCount>>

args == <<excelPath, images, worksheetName>>

history == <<batches, attempted, fallbackTried, succeeded>>

(* An error thrown inside the outer try block reaches its catch block *)
Throw(error) ==
    /\ thrown' = {error}
    /\ pc' = "RollingBack"

Success(count, sheet) ==
    [success |-> TRUE, imagesInserted |-> {count}, worksheetName |-> sheet,
     error |-> {}]

(* Variant: the failure result carries no error *)
FailureWithoutError(error) ==
    [success |-> FALSE, imagesInserted |-> {}, worksheetName |-> {},
     error |-> {}]

Failure(error) ==
    [success |-> FALSE, imagesInserted |-> {}, worksheetName |-> {},
     error |-> error]

-----------------------------------------------------------------------------
(* insertImagesSafely(excelPath, images, worksheetName), step by step *)

Call ==
    /\ pc = "Idle"
    /\ UNCHANGED otherVars
    /\ \E path \in TargetPaths, n \in 0..MaxImages, base \in BaseKinds,
          special \in Kinds, name \in {"", "Sheet1", "NoSuchSheet"} :
          \E pos \in 0..n :
            /\ excelPath' = path
            /\ images' = MakeImages(n, base, special, pos)
            /\ worksheetName' = name
            /\ preBytes' = fs[path]
    /\ pc' = "Validating"
    /\ trace' = <<"call">>
    /\ UNCHANGED <<fs, locals, thrown, outcome, history>>

(* Mutant: the existence check is left out *)
CheckExistsSkipped ==
    /\ pc = "Validating"
    /\ UNCHANGED otherVars
    /\ trace' = Append(trace, "exists")
    /\ pc' = "BackingUp"
    /\ UNCHANGED <<fs, args, locals, thrown, outcome, preBytes, history>>

(* if (!this.checkFileExists(excelPath)) throw *)
CheckExists ==
    /\ pc = "Validating"
    /\ UNCHANGED otherVars
    /\ trace' = Append(trace, "exists")
    /\ IF Exists(excelPath)
       THEN pc' = "BackingUp" /\ UNCHANGED thrown
       ELSE Throw("WorkbookNotFound")
    /\ UNCHANGED <<fs, args, locals, outcome, preBytes, history>>

(* backupPath = this.createBackup(excelPath): null when the copy throws *)
createBackup ==
    /\ pc = "BackingUp"
    /\ UNCHANGED otherVars
    /\ trace' = Append(trace, "backup")
    /\ \E r \in CopyFileOutcomes(excelPath, BackupPathOf(excelPath)) :
          /\ fs' = r.fs
          /\ backupPath' = IF r.ok THEN <<BackupPathOf(excelPath)>> ELSE <<>>
    /\ pc' = "Filtering"
    /\ UNCHANGED <<args, validImages, workbook, worksheet, i, insertedCount,
                   thrown, outcome, preBytes, history>>

FilterValid(imgs) ==
    LET Keep(k) == isValidImageFile(imgs[k])
    IN  SelectSeq([k \in 1..Len(imgs) |-> k], Keep)

(* Mutant: no early return when nothing is admissible *)
FilterImagesNoReturn ==
    /\ pc = "Filtering"
    /\ UNCHANGED otherVars
    /\ trace' = Append(trace, "filter")
    /\ validImages' = FilterValid(images)
    /\ pc' = "Loading"
    /\ UNCHANGED <<fs, args, backupPath, workbook, worksheet, i,
                   insertedCount, thrown, outcome, preBytes, history>>

(* validImages = images.filter(isValidImageFile); return when it is empty *)
FilterImages ==
    /\ pc = "Filtering"
    /\ UNCHANGED otherVars
    /\ trace' = Append(trace, "filter")
    /\ validImages' = FilterValid(images)
    /\ IF validImages' = <<>>
       THEN /\ outcome' = {Success(0, {})}
            /\ pc' = "Done"
       ELSE /\ pc' = "Loading"
            /\ UNCHANGED outcome
    /\ UNCHANGED <<fs, args, backupPath, workbook, worksheet, i,
                   insertedCount, thrown, preBytes, history>>

(* await workbook.xlsx.readFile(excelPath) *)
LoadWorkbook ==
    /\ pc = "Loading"
    /\ UNCHANGED otherVars
    /\ trace' = Append(trace, "load")
    /\ \/ /\ fs[excelPath].kind = "workbook"
          /\ workbook' = fs[excelPath]
          /\ pc' = "Resolving"
          /\ UNCHANGED thrown
       \/ /\ Throw("ReadFailed")
          /\ UNCHANGED workbook
    /\ UNCHANGED <<fs, args, backupPath, validImages, worksheet, i,
                   insertedCount, outcome, preBytes, history>>

(* Mutant: a worksheet that is not found falls back to the first one *)
getWorksheetOrFirst(name) ==
    IF name # "" /\ name \in Range(WorkbookSheets) THEN {name}
    ELSE IF WorkbookSheets # <<>> THEN {WorkbookSheets[1]} ELSE {}

(* worksheetName ? getWorksheet(worksheetName) : getWorksheet(1) *)
getWorksheet(name) ==
    IF name # ""
    THEN IF name \in Range(WorkbookSheets) THEN {name} ELSE {}
    ELSE IF WorkbookSheets # <<>> THEN {WorkbookSheets[1]} ELSE {}

SelectWorksheet ==
    /\ pc = "Resolving"
    /\ UNCHANGED otherVars
    /\ trace' = Append(trace, "sheet")
    /\ IF getWorksheet(worksheetName) = {}
       THEN /\ Throw("WorksheetNotFound")
            /\ UNCHANGED <<worksheet, i, insertedCount>>
       ELSE /\ worksheet' = CHOOSE w \in getWorksheet(worksheetName) : TRUE
            /\ i' = 0
            /\ insertedCount' = 0
            /\ pc' = "Inserting"
            /\ UNCHANGED thrown
    /\ UNCHANGED <<fs, args, backupPath, validImages, workbook, outcome,
                   preBytes, history>>

(* Mutant: the slice ends one placement early *)
BatchAtShort(start) ==
    SubSeq(validImages, start + 1,
           Min(start + batchSize - 1, Len(validImages)))

(* validImages.slice(i, Math.min(i + batchSize, validImages.length)) *)
BatchAt(start) ==
    SubSeq(validImages, start + 1, Min(start + batchSize, Len(validImages)))

(* Mutant: the first failed insertion ends the batch *)
BatchAttemptsUntilFailure(batch) ==
    LET bad == {k \in 1..Len(batch) : ~insertSingleImage(images[batch[k]]).ok}
    IN  IF bad = {} THEN batch
        ELSE SubSeq(batch, 1, CHOOSE k \in bad : \A j \in bad : k <= j)

(* The placements of a batch that insertSingleImage is called for: the     *)
(* inner loop catches every failure and goes on with the next placement    *)
BatchAttempts(batch) == batch

(* Mutant: the loop stops one placement early *)
MoreBatchesOffByOne == i + batchSize < Len(validImages) - 1

(* The condition of the batch loop after i += batchSize, which is also the *)
(* condition of the pause: i + batchSize < validImages.length              *)
MoreBatches == i + batchSize < Len(validImages)

(* One pass of the batch loop: every placement of the batch, then the      *)
(* pause when another batch follows                                        *)
InsertBatch ==
    /\ pc = "Inserting"
    /\ UNCHANGED otherVars
    /\ LET batch == BatchAt(i)
           tried == BatchAttempts(batch)
           Ok(k) == insertSingleImage(images[k]).ok
           done == SelectSeq(tried, Ok)
       IN  /\ insertedCount' = insertedCount + Len(done)
           /\ workbook' = [workbook EXCEPT !.media = @ \o done]
           /\ batches' = Append(batches, batch)
           /\ attempted' = attempted \o tried
           /\ succeeded' = succeeded \cup Range(done)
           /\ fallbackTried' = fallbackTried \cup
                {k \in Range(tried) : insertSingleImage(images[k]).fallback}
    /\ IF MoreBatches
       THEN /\ trace' = trace \o <<"batch", "pause">>
            /\ i' = i + batchSize
            /\ pc' = "Inserting"
       ELSE /\ trace' = Append(trace, "batch")
            /\ i' = i + batchSize
            /\ pc' = "Persisting"
    /\ UNCHANGED <<fs, args, backupPath, validImages, worksheet, thrown,
                   outcome, preBytes>>

(* await workbook.xlsx.writeFile(excelPath): the target after the write.   *)
(* A write that throws leaves the target as it was or half written.        *)
WriteFileOutcomes(path, wb) ==
    {[ok |-> TRUE,
      fs |-> [fs EXCEPT ![path] = [kind |-> "workbook", rev |-> wb.rev + 1,
                                   media |-> wb.media]]],
     [ok |-> FALSE, fs |-> fs],
     [ok |-> FALSE, fs |-> [fs EXCEPT ![path] = Partial]]}

Persist ==
    /\ pc = "Persisting"
    /\ UNCHANGED otherVars
    /\ trace' = Append(trace, "persist")
    /\ \E r \in WriteFileOutcomes(excelPath, workbook) :
          /\ fs' = r.fs
          /\ IF r.ok
             THEN /\ outcome' = {Success(insertedCount, {worksheet})}
                  /\ pc' = "Done"
                  /\ UNCHANGED thrown
             ELSE /\ Throw("WriteFailed")
                  /\ UNCHANGED outcome
    /\ UNCHANGED <<args, locals, preBytes, history>>

(* The outer catch block: restore the backup when there is one, then       *)
(* return the failure.  An error of the restoring copy is caught.          *)
RestoreOutcomes ==
    IF backupPath # <<>> /\ Exists(backupPath[1])
    THEN CopyFileOutcomes(backupPath[1], excelPath)
    ELSE {}

(* Mutant: the error of the restoring copy replaces the original error *)
RollbackMasksError ==
    /\ pc = "RollingBack"
    /\ UNCHANGED otherVars
    /\ IF RestoreOutcomes = {}
       THEN /\ UNCHANGED fs
            /\ trace' = trace
            /\ outcome' = {Failure(thrown)}
       ELSE \E r \in RestoreOutcomes :
                /\ fs' = r.fs
                /\ trace' = Append(trace, IF r.ok THEN "restore"
                                                  ELSE "restore-failed")
                /\ outcome' = {Failure(IF r.ok THEN thrown
                                                ELSE {"RestoreFailed"})}
    /\ pc' = "Failed"
    /\ UNCHANGED <<args, locals, thrown, preBytes, history>>

(* Mutant: an error of the restoring copy is not caught *)
RollbackUncaught ==
    /\ pc = "RollingBack"
    /\ UNCHANGED otherVars
    /\ IF RestoreOutcomes = {}
       THEN /\ UNCHANGED fs
            /\ trace' = trace
            /\ outcome' = {Failure(thrown)}
            /\ pc' = "Failed"
       ELSE \E r \in RestoreOutcomes :
                /\ fs' = r.fs
                /\ trace' = Append(trace, IF r.ok THEN "restore"
                                                  ELSE "restore-failed")
                /\ outcome' = IF r.ok THEN {Failure(thrown)} ELSE outcome
                /\ pc' = IF r.ok THEN "Failed" ELSE "Escaped"
    /\ UNCHANGED <<args, locals, thrown, preBytes, history>>

Rollback ==
    /\ pc = "RollingBack"
    /\ UNCHANGED otherVars
    /\ IF RestoreOutcomes = {}
       THEN /\ UNCHANGED fs
            /\ trace' = trace
       ELSE \E r \in RestoreOutcomes :
                /\ fs' = r.fs
                /\ trace' = Append(trace, IF r.ok THEN "restore"
                                                  ELSE "restore-failed")
    /\ outcome' = {Failure(thrown)}
    /\ pc' = "Failed"
    /\ UNCHANGED <<args, locals, thrown, preBytes, history>>

Next ==
    \/ Call
    \/ CheckExists
    \/ createBackup
    \/ FilterImages
    \/ LoadWorkbook
    \/ SelectWorksheet
    \/ InsertBatch
    \/ Persist
    \/ Rollback

Spec == Init /\ [][Next]_vars

-----------------------------------------------------------------------------
(* Vocabulary of the properties *)

Returned == outcome # {}

Result == CHOOSE o \in outcome : TRUE

Target == fs[excelPath]

Count(seq, e) == Cardinality({k \in 1..Len(seq) : seq[k] = e})

Happened(e) == e \in Range(trace)

CeilDiv(a, b) == (a + b - 1) \div b

(* The completely persisted merged workbook of this call *)
Merged ==
    [kind |-> "workbook", rev |-> workbook.rev + 1, media |-> workbook.media]

(* A placement whose insertion fails: malformed cell, extension that is    *)
(* not insertable, or both registrations throwing                          *)
InsertionFails(img) ==
    \/ ~CellMatches(img.cell)
    \/ ToLowerCase(img.ext) \notin {".png", ".jpg", ".jpeg", ".gif"}
    \/ (~img.primary /\ ~img.fallback)

PrimaryRaised(img) ==
    /\ CellMatches(img.cell)
    /\ ToLowerCase(img.ext) \in {".png", ".jpg", ".jpeg", ".gif"}
    /\ ~img.primary

-----------------------------------------------------------------------------
(* C1: whenever writing the modified workbook back to the target path      *)
(* throws, at return the target's bytes equal its pre-call bytes (the      *)
(* backup's bytes) and the outcome has success = false.  Stated here for   *)
(* the calls in which the rollback was successful: createBackup returned a *)
(* path and the restoring copy returned.  The code does not keep it even   *)
(* then: the backup path of a target without ".xlsx" in it (RECORD.XLSX)   *)
(* is the target itself, so the restoring copy restores nothing.           *)
C1_PersistFailureRestoresTarget ==
    (Returned /\ thrown = {"WriteFailed"} /\ Happened("restore")) =>
        (Target = preBytes /\ ~Result.success)

(* C2: after any call returns, the target holds exactly its pre-call       *)
(* content or the completely persisted merged workbook, never a partial    *)
(* write.  The code leaves a half-written target in the cases of C1.       *)
C2_TargetNeverPartial ==
    Returned => (Target = preBytes \/ Target = Merged)

(* The batch loop has run to its end *)
LoopFinished == pc = "Persisting" \/ Happened("persist")

RECURSIVE Flatten(_)
Flatten(seqs) ==
    IF seqs = <<>> THEN <<>> ELSE Head(seqs) \o Flatten(Tail(seqs))

PositionIn(seq, e) == CHOOSE k \in 1..Len(seq) : seq[k] = e

(* C3: for N >= 1 admissible placements the loop processes ceil(N/5)       *)
(* batches in input order, every batch but the last holding exactly 5,     *)
(* each admissible placement is attempted exactly once, and a successful   *)
(* return reports as imagesInserted the number of placements whose         *)
(* insertion succeeded.                                                    *)
C3_BatchesAndCount ==
    /\ (LoopFinished /\ validImages # <<>>) =>
          /\ Len(batches) = CeilDiv(Len(validImages), 5)
          /\ \A b \in 1..(Len(batches) - 1) : Len(batches[b]) = 5
          /\ Len(batches[Len(batches)]) \in 1..5
          /\ Flatten(batches) = validImages
          /\ attempted = validImages
    /\ (pc = "Done" /\ validImages # <<>>) =>
          /\ Result.success
          /\ Result.imagesInserted =
                {Cardinality({k \in Range(validImages) :
                                 ~InsertionFails(images[k])})}

C3_Witness ==
    /\ pc = "Done"
    /\ Len(validImages) = 11
    /\ Len(batches) = 3
    /\ Result.imagesInserted = {10}

(* C4: the base64 registration of a placement is attempted exactly when    *)
(* its filename registration raised an error; a placement whose primary    *)
(* registration fails and whose fallback succeeds is counted in            *)
(* imagesInserted, and the call that persists returns success = true       *)
(* without an error.                                                       *)
C4_FallbackIffPrimaryRaised ==
    /\ \A k \in Range(attempted) :
          k \in fallbackTried <=> PrimaryRaised(images[k])
    /\ \A k \in Range(attempted) :
          (PrimaryRaised(images[k]) /\ images[k].fallback) =>
              /\ k \in succeeded
              /\ k \in Range(workbook.media)
              /\ pc = "Done" =>
                    /\ Result.success
                    /\ Result.error = {}
                    /\ Result.imagesInserted = {Cardinality(succeeded)}
                    /\ k \in Range(Target.media)

C4_Witness ==
    /\ pc = "Done"
    /\ \E k \in fallbackTried :
          /\ ~images[k].primary
          /\ k \in succeeded
          /\ Result.imagesInserted = {Len(validImages)}

(* C5: when the insertion of one admissible placement fails (both          *)
(* registrations fail, malformed cell, extension not insertable), every    *)
(* later placement is still attempted, the workbook is still persisted,    *)
(* and the call returns success = true with exactly that placement not     *)
(* counted.                                                                *)
C5_OneFailureDoesNotAbort ==
    LET failed == {k \in Range(validImages) : InsertionFails(images[k])}
        Kept(k) == k \notin failed
    IN  /\ LoopFinished => attempted = validImages
        /\ (pc \in {"RollingBack", "Failed"} /\ attempted # <<>>) =>
              Happened("persist")
        /\ (pc = "Done" /\ validImages # <<>>) =>
              /\ Result.success
              /\ Result.error = {}
              /\ Result.imagesInserted = {Len(validImages) - Cardinality(failed)}
              /\ succeeded = Range(validImages) \ failed
              /\ Target.media = SelectSeq(validImages, Kept)

C5_Witness ==
    /\ pc = "Done"
    /\ \E f \in Range(attempted), k \in succeeded :
          /\ InsertionFails(images[f])
          /\ PositionIn(attempted, f) < PositionIn(attempted, k)
          /\ PositionIn(attempted, f) <= 5
          /\ PositionIn(attempted, k) <= 5
    /\ Result.imagesInserted = {Len(validImages) - 1}

(* C6: when no placement passes the admission filter (an empty list        *)
(* included) the call on an existing workbook returns success = true with  *)
(* imagesInserted = 0 and the target's bytes unchanged: the workbook is    *)
(* neither loaded nor rewritten and no rollback is run.                    *)
C6_NothingAdmissible ==
    (/\ Returned
     /\ preBytes.kind # "absent"
     /\ \A k \in 1..Len(images) : ~isValidImageFile(images[k])) =>
        /\ pc = "Done"
        /\ Result.success
        /\ Result.imagesInserted = {0}
        /\ Result.error = {}
        /\ Target = preBytes
        /\ ~Happened("load")
        /\ ~Happened("persist")
        /\ ~Happened("restore")
        /\ ~Happened("restore-failed")
        /\ attempted = <<>>

C6_Witness ==
    /\ pc = "Done"
    /\ Len(images) = 3
    /\ validImages = <<>>
    /\ \E k \in 1..Len(images) : images[k].exists

(* C7: when the target workbook does not exist the call returns a failure  *)
(* with a not-found error, creates no backup file, attempts no insertion   *)
(* and creates no file at the target path.                                 *)
C7_MissingWorkbook ==
    (pc # "Idle" /\ preBytes.kind = "absent") =>
        /\ ~Exists(excelPath)
        /\ ~Exists(BackupPathOf(excelPath))
        /\ backupPath = <<>>
        /\ ~Happened("backup")
        /\ attempted = <<>>
        /\ pc \in {"Validating", "RollingBack", "Failed"}
        /\ Returned =>
              /\ ~Result.success
              /\ Result.error = {"WorkbookNotFound"}
              /\ Result.imagesInserted = {}

C7_Witness ==
    /\ pc = "Failed"
    /\ excelPath = PathAbsent
    /\ Len(images) > 0
    /\ Result.error = {"WorkbookNotFound"}

(* The requested worksheet is absent from the loaded workbook *)
WorksheetAbsent ==
    /\ Happened("sheet")
    /\ worksheetName # ""
    /\ worksheetName \notin Range(WorkbookSheets)

RestoreAttempted == Happened("restore") \/ Happened("restore-failed")

Rank(e) ==
    CASE e = "call" -> 0
      [] e = "exists" -> 1
      [] e = "backup" -> 2
      [] e = "filter" -> 3
      [] e = "load" -> 4
      [] e = "sheet" -> 5
      [] e \in {"batch", "pause"} -> 6
      [] e = "persist" -> 7
      [] OTHER -> 8

StepOrder ==
    /\ \A a, b \in 1..Len(trace) : a < b => Rank(trace[a]) <= Rank(trace[b])
    /\ \A e \in {"call", "exists", "backup", "filter", "load", "sheet",
                 "persist", "restore", "restore-failed"} : Count(trace, e) <= 1
    /\ \A k \in 1..Len(trace) :
          Rank(trace[k]) \in 1..7 =>
              \A r \in 0..(Rank(trace[k]) - 1) :
                  \E j \in 1..(k - 1) : Rank(trace[j]) = r
    /\ Happened("persist") =>
          /\ Count(trace, "batch") = CeilDiv(Len(validImages), 5)
          /\ attempted = validImages
    /\ (pc = "RollingBack" \/ RestoreAttempted \/ pc = "Failed") => thrown # {}
    /\ pc = "Done" => thrown = {}

StepOrderAction ==
    /\ (pc # "Idle" /\ fs'[excelPath] # fs[excelPath]) =>
          (Happened("backup") /\ Happened("filter"))
    /\ pc = "RollingBack" => pc' = "Failed"
    /\ pc' = "RollingBack" => (pc # "RollingBack" /\ thrown = {} /\ thrown' # {})

(* C9: the steps of a merge call occur only in the order existence check,  *)
(* backup attempt, admission filtering, insertion batches, persist; the    *)
(* target is never written before the backup attempt and the filtering     *)
(* are done; persist comes only after the last batch; the rollback is      *)
(* entered only after a failure and always leads to Failed.                *)
C9_StepOrder == [](StepOrder) /\ [][StepOrderAction]_vars

C9_Witness ==
    /\ pc = "Failed"
    /\ Count(trace, "batch") = 3
    /\ Count(trace, "pause") = 2
    /\ Happened("persist")
    /\ Happened("restore")

(* C10: every call ends in exactly one of Done and Failed with exactly one *)
(* outcome: it is never stuck before that, takes a bounded number of       *)
(* steps, takes none after returning, and no failure escapes as a thrown   *)
(* exception.                                                              *)
C10_OneOutcome ==
    /\ pc # "Escaped"
    /\ Returned <=> pc \in {"Done", "Failed"}
    /\ Cardinality(outcome) <= 1
    /\ pc = "Done" => (Result.success /\ Result.error = {})
    /\ pc = "Failed" => (~Result.success /\ Result.error = thrown /\ thrown # {})
    /\ pc \notin {"Idle", "Done", "Failed"} => ENABLED Next
    /\ pc \in {"Done", "Failed"} => ~ENABLED Next
    /\ Len(trace) <= 8 + 2 * CeilDiv(Len(images), 5)

C10_Witness ==
    /\ pc = "Failed"
    /\ thrown = {"WriteFailed"}
    /\ Happened("restore-failed")
    /\ Target = Absent
    /\ Cardinality(outcome) = 1

-----------------------------------------------------------------------------
(* The backup suffix inserted immediately before the final extension of a  *)
(* file name                                                               *)
WithBackupSuffix(name) ==
    SubSeq(name, 1, Len(name) - 1) \o <<"_backup_", "timestamp">>
        \o <<name[Len(name)]>>

(* C11: the backup path computed by createBackup differs from the target   *)
(* path, lies in the target's directory, and is the target's file name     *)
(* with the backup suffix inserted immediately before its final extension. *)
(* The code does not keep this: replace(".xlsx", ...) leaves a path        *)
(* without ".xlsx" unchanged (RECORD.XLSX) and rewrites the first ".xlsx"  *)
(* of the path, which may lie in a directory name.                         *)
C11_BackupPathIsSibling ==
    Happened("backup") =>
        /\ BackupPathOf(excelPath) # excelPath
        /\ DirName(BackupPathOf(excelPath)) = DirName(excelPath)
        /\ BaseName(BackupPathOf(excelPath)) =
              WithBackupSuffix(BaseName(excelPath))

(* C12: once createBackup has created a backup file, the call never        *)
(* deletes or overwrites it: at return the backup file exists and holds    *)
(* the target's pre-call bytes.  The code does not keep this when the      *)
(* backup path is the target itself (C11): the persist overwrites it.      *)
C12_BackupRetained ==
    (Returned /\ backupPath # <<>>) =>
        /\ Exists(backupPath[1])
        /\ fs[backupPath[1]] = preBytes

(* The failure that sent the call to its catch block, read from the steps  *)
(* it had taken                                                            *)
OriginalFailure ==
    CASE Happened("persist") -> "WriteFailed"
      [] Happened("sheet") -> "WorksheetNotFound"
      [] Happened("load") -> "ReadFailed"
      [] OTHER -> "WorkbookNotFound"

(* C13: when a merge call fails and the restoration of the backup fails    *)
(* too, the outcome has success = false and its error is the failure that  *)
(* triggered the rollback, not the restoration error.                      *)
C13_RestoreFailureDoesNotMask ==
    (Returned /\ Happened("restore-failed")) =>
        /\ pc = "Failed"
        /\ ~Result.success
        /\ Result.error = {OriginalFailure}
        /\ Result.imagesInserted = {}

C13_Witness ==
    /\ pc = "Failed"
    /\ Happened("restore-failed")
    /\ Result.error = {"WorksheetNotFound"}
    /\ Target # preBytes

-----------------------------------------------------------------------------
(* The cell-address codec on its own: parseCellAddress is applied to every *)
(* string of at most MaxCellLen characters of CellAlphabet, and to the     *)
(* address of every (column, row) with column <= MaxColumn and row in      *)
(* SampleRows; an accepted address is encoded again.                       *)

MaxCellLen == 3

MaxColumn == 702

MaxRow == 12

CellAlphabet == {"A", "Z", "g", "0", "1", "2"}

CellStrings ==
    UNION {[1..n -> CellAlphabet] : n \in 0..MaxCellLen}

SampleRows == (1..MaxRow) \cup {99, 100, 999, 1000, 9999}

(* encode(column, row): letters by repeated base-26 division without a     *)
(* zero digit, followed by the row number                                  *)
RECURSIVE ColumnLetters(_)
ColumnLetters(column) ==
    IF column = 0 THEN <<>>
    ELSE ColumnLetters((column - 1) \div 26)
         \o <<Letters[((column - 1) % 26) + 1]>>

encode(column, row) == ColumnLetters(column) \o NumToDigits(row)

CodecInit ==
    /\ MergeIdle
    /\ AdmitIdle
    /\ PlanIdle
    /\ GenIdle
    /\ RunIdle
    /\ cellInfo = {}
    /\ encoded = {}
    /\ \/ /\ address = {}
          /\ cellText \in CellStrings
       \/ /\ address \in {{<<column, row>>} :
                            column \in 1..MaxColumn, row \in SampleRows}
          /\ cellText = <<>>

EncodeAddress ==
    /\ address # {}
    /\ cellText = <<>>
    /\ \E a \in address : cellText' = encode(a[1], a[2])
    /\ UNCHANGED <<cellInfo, address, encoded>>
    /\ UNCHANGED <<mergeVars, admitVars, planVars, genVars, runVars>>

ParseCell ==
    /\ cellInfo = {}
    /\ address # {} => cellText # <<>>
    /\ cellInfo' = {parseCellAddress(cellText)}
    /\ UNCHANGED <<cellText, address, encoded>>
    /\ UNCHANGED <<mergeVars, admitVars, planVars, genVars, runVars>>

ReEncode ==
    /\ encoded = {}
    /\ \E info \in cellInfo :
           /\ info.ok
           /\ encoded' = {encode(info.col, info.row)}
    /\ UNCHANGED <<cellText, cellInfo, address>>
    /\ UNCHANGED <<mergeVars, admitVars, planVars, genVars, runVars>>

CodecNext == EncodeAddress \/ ParseCell \/ ReEncode

CodecSpec == CodecInit /\ [][CodecNext]_vars

(* Vocabulary of the codec claims *)

Parsed == cellInfo # {}

Accepted == \E info \in cellInfo : info.ok

(* One or more of A..Z followed by one or more of 0..9, read off the text  *)
WellFormed(text) ==
    /\ Len(text) >= 2
    /\ IsLetter(text[1])
    /\ IsDigit(text[Len(text)])
    /\ \A j \in 1..Len(text) : IsLetter(text[j]) \/ IsDigit(text[j])
    /\ \A j, k \in 1..Len(text) :
           (j < k /\ IsDigit(text[j])) => IsDigit(text[k])

(* C14: parseCellAddress fails for every string that is not one or more    *)
(* uppercase letters followed by one or more digits ("1A", "A", "", "g2"), *)
(* and returns no address for it.                                          *)
C14_MalformedRejected ==
    (Parsed /\ ~WellFormed(cellText)) =>
        cellInfo = {[ok |-> FALSE, col |-> 0, row |-> 0]}

C14_Witness ==
    /\ cellText = <<"g", "2">>
    /\ Parsed
    /\ ~Accepted

(* C15: for every address from A1 to ZZ9999, decoding the encoding of      *)
(* (column, row) returns (column, row), and encoding the decoding of the   *)
(* address returns the same string.                                        *)
C15_RoundTrip ==
    \A a \in address :
        /\ Parsed => cellInfo = {[ok |-> TRUE, col |-> a[1], row |-> a[2]]}
        /\ encoded # {} => encoded = {cellText}

C15_Witness ==
    /\ address = {<<702, 9999>>}
    /\ cellText = <<"Z", "Z", "9", "9", "9", "9">>
    /\ cellInfo = {[ok |-> TRUE, col |-> 702, row |-> 9999]}
    /\ encoded = {cellText}

RECURSIVE Power(_, _)
Power(base, n) == IF n = 0 THEN 1 ELSE base * Power(base, n - 1)

RECURSIVE SumOver(_, _)
SumOver(f, S) ==
    IF S = {} THEN 0
    ELSE LET x == CHOOSE y \in S : TRUE
         IN  f[x] + SumOver(f, S \ {x})

(* The letters of an address and their value with A = 1 .. Z = 26 as the   *)
(* digits of a base-26 numeral without zero                                *)
LettersOf(text) == SelectSeq(text, IsLetter)

Base26Value(letters) ==
    SumOver([j \in 1..Len(letters) |->
                IndexIn(Letters, letters[j])
                    * Power(26, Len(letters) - j)],
            1..Len(letters))

(* C16: for every string parseCellAddress accepts, the returned column is  *)
(* the zero-digit-free base-26 value of the letters (A = 1, Z = 26,        *)
(* AA = 27), and the returned column and row are both at least 1.          *)
C16_ColumnAndRowPositive ==
    \A info \in cellInfo :
        info.ok =>
            /\ info.col = Base26Value(LettersOf(cellText))
            /\ info.col >= 1
            /\ info.row >= 1

-----------------------------------------------------------------------------
(* The image admission filter on its own: isValidImageFile is applied to   *)
(* one file of every combination of existence, stat outcome, size and      *)
(* extension.                                                              *)

FileSizes == {0, 1, MaxImageBytes - 1, MaxImageBytes, MaxImageBytes + 1}

FileExtensions ==
    {".png", ".PNG", ".Png", ".jpg", ".JPG", ".jpeg", ".JPEG", ".gif",
     ".GIF", ".bmp", ".BMP", ".txt", ".svg", ""}

AdmitInit ==
    /\ MergeIdle
    /\ CodecIdle
    /\ PlanIdle
    /\ GenIdle
    /\ RunIdle
    /\ imageFile \in [exists : BOOLEAN, statOk : BOOLEAN, size : FileSizes,
                       ext : FileExtensions]
    /\ admitted = {}

CheckImage ==
    /\ admitted = {}
    /\ admitted' = {[valid |-> isValidImageFile(imageFile),
                     warned |-> ImageWarning(imageFile)]}
    /\ UNCHANGED imageFile
    /\ UNCHANGED <<mergeVars, codecVars, planVars, genVars, runVars>>

AdmitNext == CheckImage

AdmitSpec == AdmitInit /\ [][AdmitNext]_vars

(* Vocabulary of the admission claim: the four checks as the claim words   *)
(* them, and the first of them that fails                                  *)

RecognizedAnyCase ==
    {".png", ".PNG", ".Png", ".jpg", ".JPG", ".jpeg", ".JPEG", ".gif",
     ".GIF", ".bmp", ".BMP"}

FirstFailingCheck(file) ==
    CASE ~file.exists -> "missing"
      [] file.exists /\ file.size = 0 -> "empty"
      [] file.exists /\ file.size > 10485760 -> "too-large"
      [] /\ file.exists
         /\ file.size \in 1..10485760
         /\ file.ext \notin RecognizedAnyCase -> "unsupported"
      [] OTHER -> ""

(* C17: isValidImageFile returns true exactly when the file exists, its    *)
(* size is greater than 0 and at most 10485760 bytes, and its extension    *)
(* is, ignoring case, one of png, jpg, jpeg, gif, bmp; the first failing   *)
(* check decides, and an error while checking yields false.                *)
C17_AdmissionFilter ==
    \A r \in admitted :
        IF imageFile.exists /\ ~imageFile.statOk
        THEN /\ ~r.valid
             /\ r.warned = "error"
        ELSE /\ r.valid = /\ imageFile.exists
                          /\ imageFile.size > 0
                          /\ imageFile.size <= 10485760
                          /\ imageFile.ext \in RecognizedAnyCase
             /\ r.warned = FirstFailingCheck(imageFile)

C17_Witness ==
    /\ imageFile = [exists |-> TRUE, statOk |-> TRUE, size |-> 10485760,
                    ext |-> ".PNG"]
    /\ admitted = {[valid |-> TRUE, warned |-> ""]}

-----------------------------------------------------------------------------
(* index(): from the row array of the roster worksheet to the list of      *)
(* image placements handed to insertImagesSafely.  A cell value is a       *)
(* record [t, v, n]: t its typeof ("string", "number", "null" for null,    *)
(* "undefined" for a column the row does not have), v the text of a        *)
(* string, n the value of a number.  Row r of data is data[r + 1].         *)

MaxRosterRows == 3

Str(text) == [t |-> "string", v |-> text, n |-> 0]

Num(number) == [t |-> "number", v |-> "", n |-> number]

Null == [t |-> "null", v |-> "", n |-> 0]

Undefined == [t |-> "undefined", v |-> "", n |-> 0]

(* row[k], k counted from 0 *)
At(row, k) == IF k + 1 <= Len(row) THEN row[k + 1] ELSE Undefined

Ids == {"E001", "E002"}

Header ==
    <<Str("ID"), Str("code"), Str("account"), Str("name"), Str("family"),
      Str("team")>>

RowKinds ==
    {"E001", "E002", "empty-string", "number", "null", "short", "none"}

(* The row of a kind at position r: its columns 1..5 carry the position *)
RowOf(kind, r) ==
    LET rest == <<Num(r), Str("account"), Str("name"), Null, Str("team")>>
    IN  CASE kind \in Ids -> <<Str(kind)>> \o rest
          [] kind = "empty-string" -> <<Str("")>> \o rest
          [] kind = "number" -> <<Num(7)>> \o rest
          [] kind = "null" -> <<Null>> \o rest
          [] kind = "short" -> <<Str("E001")>>
          [] OTHER -> <<>>

Rosters ==
    {<<>>} \cup
    UNION {{<<Header>> \o [r \in 1..n |-> RowOf(kinds[r], r)] :
               kinds \in [1..n -> RowKinds]} : n \in 0..MaxRosterRows}

(* The files <id>.png of the image folder *)
FileMissing == [exists |-> FALSE, statOk |-> TRUE, size |-> 0, ext |-> ".png"]

FileGood == [exists |-> TRUE, statOk |-> TRUE, size |-> 2048, ext |-> ".png"]

FileEmpty == [exists |-> TRUE, statOk |-> TRUE, size |-> 0, ext |-> ".png"]

FileOversize ==
    [exists |-> TRUE, statOk |-> TRUE, size |-> MaxImageBytes + 1,
     ext |-> ".png"]

PlanInit ==
    /\ MergeIdle
    /\ CodecIdle
    /\ AdmitIdle
    /\ stage = "read"
    /\ data \in Rosters
    /\ folderExists \in BOOLEAN
    /\ qrFiles \in [Ids -> {FileMissing, FileGood, FileOversize}]
    /\ ~folderExists => qrFiles = [id \in Ids |-> FileMissing]
    /\ staffList = <<>>
    /\ imageConfigs = <<>>
    /\ validImageConfigs = <<>>
    /\ GenIdle
    /\ RunIdle

(* data.slice(1) *)
Slice1(rows) == IF rows = <<>> THEN <<>> ELSE Tail(rows)

StaffOf(row) ==
    [id |-> At(row, 0), code |-> At(row, 1), acount |-> At(row, 2),
     staff_name |-> At(row, 3), family |-> At(row, 4), team |-> At(row, 5)]

Truthy(value) ==
    CASE value.t = "string" -> value.v # ""
      [] value.t = "number" -> value.n # 0
      [] OTHER -> FALSE

(* Variant: the typeof test is missing *)
IsStaffTruthy(staff) == Truthy(staff.id)

IsStaff(staff) == Truthy(staff.id) /\ staff.id.t = "string"

ExtractStaff ==
    /\ stage = "read"
    /\ staffList' = SelectSeq([r \in 1..Len(Slice1(data)) |->
                                  StaffOf(Slice1(data)[r])], IsStaff)
    /\ stage' = IF staffList' = <<>> THEN "failed" ELSE "extracted"
    /\ UNCHANGED <<data, folderExists, qrFiles, imageConfigs,
                   validImageConfigs>>
    /\ UNCHANGED <<mergeVars, codecVars, admitVars, genVars, runVars>>

(* generateQRCode(id): creates the folder when it is missing, encodes the  *)
(* identifier as a data URL, writes <id>.png and returns the data URL.     *)
(* mkdirSync, toDataURL and toFile may each throw; every error is rethrown *)
(* as "Failed to generate QR code".  A toFile that throws leaves the file  *)
(* as it was, or created and empty.  An outcome is the state of the folder *)
(* after the call and how the call ended.                                  *)
DataURL(id) == <<"data:image/png;base64", id>>

QrOutcome(ok, value, exists, files) ==
    [ok |-> ok, value |-> value,
     error |-> IF ok THEN "" ELSE "Failed to generate QR code",
     folderExists |-> exists, qrFiles |-> files]

(* Variant: the image is encoded but toFile is never called *)
generateQRCodeNoFile(id, exists, files) ==
    (IF exists THEN {} ELSE {QrOutcome(FALSE, <<>>, FALSE, files)})
    \cup {QrOutcome(FALSE, <<>>, TRUE, files),
          QrOutcome(TRUE, DataURL(id), TRUE, files)}

generateQRCode(id, exists, files) ==
    (IF exists THEN {} ELSE {QrOutcome(FALSE, <<>>, FALSE, files)})
    \cup {QrOutcome(FALSE, <<>>, TRUE, files),
          QrOutcome(FALSE, <<>>, TRUE, [files EXCEPT ![id] = FileEmpty]),
          QrOutcome(TRUE, DataURL(id), TRUE, [files EXCEPT ![id] = FileGood])}

(* The loop over staffList: one call per entry, an error is caught and     *)
(* logged, qrSuccessCount counts the calls that returned                   *)
StaffIds == {staffList[j].id.v : j \in 1..Len(staffList)}

LoopStart ==
    [folderExists |-> folderExists, qrFiles |-> qrFiles,
     qrSuccessCount |-> 0, qrAttempts |-> <<>>]

(* Variant: qrSuccessCount++ stands after the try block *)
AfterAttemptCountsAll(loop, id, o) ==
    [folderExists |-> o.folderExists, qrFiles |-> o.qrFiles,
     qrSuccessCount |-> loop.qrSuccessCount + 1,
     qrAttempts |-> Append(loop.qrAttempts, [id |-> id, ok |-> o.ok])]

AfterAttempt(loop, id, o) ==
    [folderExists |-> o.folderExists, qrFiles |-> o.qrFiles,
     qrSuccessCount |-> loop.qrSuccessCount + (IF o.ok THEN 1 ELSE 0),
     qrAttempts |-> Append(loop.qrAttempts, [id |-> id, ok |-> o.ok])]

RECURSIVE GenerateLoop(_, _)
GenerateLoop(list, n) ==
    IF n = 0 THEN {LoopStart}
    ELSE UNION {{AfterAttempt(loop, list[n].id.v, o) :
                    o \in generateQRCode(list[n].id.v, loop.folderExists,
                                         loop.qrFiles)} :
                loop \in GenerateLoop(list, n - 1)}

GenerateQRCodes ==
    /\ stage = "extracted"
    /\ \E loop \in GenerateLoop(staffList, Len(staffList)) :
           /\ folderExists' = loop.folderExists
           /\ qrFiles' = loop.qrFiles
           /\ qrSuccessCount' = loop.qrSuccessCount
           /\ qrAttempts' = loop.qrAttempts
    /\ stage' = "generated"
    /\ UNCHANGED <<data, staffList, imageConfigs, validImageConfigs,
                   qrReturn, loopIndex, qrPauses>>
    /\ UNCHANGED <<mergeVars, codecVars, admitVars, runVars>>

(* path.resolve(qrcodeFolder, `${staff.id}.png`) *)
ImagePath(id) == <<"qrcode", "/", id, ".png">>

(* Variant: the index is left out of the cell *)
PlanCellFirstRow(index) == <<"G", "2">>

(* Variant: the header row is not skipped *)
PlanCellHeaderRow(index) == <<"G">> \o NumToDigits(index + 1)

(* `G${index + 2}`, index counted from 0 *)
PlanCell(index) == <<"G">> \o NumToDigits(index + 2)

PrepareConfigs ==
    /\ stage = "generated"
    /\ IF ~folderExists
       THEN /\ stage' = "failed"
            /\ UNCHANGED imageConfigs
       ELSE /\ imageConfigs' =
                   [j \in 1..Len(staffList) |->
                       [imagePath |-> ImagePath(staffList[j].id.v),
                        cell |-> PlanCell(j - 1),
                        width |-> 50,
                        height |-> 50,
                        maintainAspectRatio |-> TRUE]]
            /\ stage' = "configured"
    /\ UNCHANGED <<data, folderExists, qrFiles, staffList,
                   validImageConfigs>>
    /\ UNCHANGED <<mergeVars, codecVars, admitVars, genVars, runVars>>

(* The file behind an image path *)
FileOf(imagePath) == qrFiles[imagePath[3]]

(* Variant: the existence test is missing *)
ConfigKeptAlways(config) == TRUE

(* writeExcelService.checkFileExists(config.imagePath) *)
ConfigExists(config) == FileOf(config.imagePath).exists

FilterConfigs ==
    /\ stage = "configured"
    /\ validImageConfigs' = SelectSeq(imageConfigs, ConfigExists)
    /\ stage' = IF validImageConfigs' = <<>> THEN "nothing" ELSE "planned"
    /\ UNCHANGED <<data, folderExists, qrFiles, staffList, imageConfigs>>
    /\ UNCHANGED <<mergeVars, codecVars, admitVars, genVars, runVars>>

PlanNext ==
    \/ ExtractStaff
    \/ GenerateQRCodes
    \/ PrepareConfigs
    \/ FilterConfigs

PlanSpec == PlanInit /\ [][PlanNext]_vars

(* Vocabulary of the planner claims *)

Extracted == stage \notin {"idle", "read"}

(* The positions in data of the rows the roster keeps: not the first, and  *)
(* a non-empty string in column 0                                          *)
KeptRows ==
    {r \in 2..Len(data) :
        /\ Len(data[r]) >= 1
        /\ data[r][1].t = "string"
        /\ data[r][1].v # ""}

NthKept(j) ==
    CHOOSE r \in KeptRows : Cardinality({q \in KeptRows : q < r}) = j - 1

(* C18: the roster drops the first row as header, contains exactly the     *)
(* remaining rows whose column-0 value is a non-empty string, in source    *)
(* order, and maps columns 0..5 of each kept row to the record fields.     *)
C18_RosterExtraction ==
    Extracted =>
        /\ Len(staffList) = Cardinality(KeptRows)
        /\ \A j \in 1..Len(staffList) :
               LET row == data[NthKept(j)]
               IN  /\ staffList[j].id = row[1]
                   /\ staffList[j].code = At(row, 1)
                   /\ staffList[j].acount = At(row, 2)
                   /\ staffList[j].staff_name = At(row, 3)
                   /\ staffList[j].family = At(row, 4)
                   /\ staffList[j].team = At(row, 5)

C18_Witness ==
    /\ stage = "extracted"
    /\ Len(data) = 4
    /\ Len(data[2]) = 6
    /\ data[2][1] = Num(7)
    /\ Len(staffList) = 2
    /\ staffList[1].id = Str("E002")
    /\ staffList[1].code = Num(2)
    /\ staffList[2].id = Str("E001")
    /\ staffList[2].team = Undefined

(* Every row after the header has a valid identifier and, when the plan is *)
(* made, an image file that exists and passes isValidImageFile             *)
AllRowsReady ==
    /\ Len(data) >= 2
    /\ KeptRows = 2..Len(data)
    /\ \A r \in 2..Len(data) : isValidImageFile(qrFiles[data[r][1].v])

PlanMade == stage \in {"planned", "nothing"}

(* C19: when every one of the N roster rows has a valid identifier and an  *)
(* existing admissible image, the plan has exactly N placements and the    *)
(* placement of the k-th data row targets column G, row k + 1.             *)
C19_OnePlacementPerRow ==
    (PlanMade /\ AllRowsReady) =>
        /\ stage = "planned"
        /\ Len(validImageConfigs) = Len(data) - 1
        /\ \A k \in 1..Len(validImageConfigs) :
               /\ parseCellAddress(validImageConfigs[k].cell)
                      = [ok |-> TRUE, col |-> 7, row |-> k + 1]
               /\ validImageConfigs[k].imagePath
                      = ImagePath(data[k + 1][1].v)

C19_Witness ==
    /\ stage = "planned"
    /\ AllRowsReady
    /\ Len(data) = 4
    /\ validImageConfigs[3].cell = <<"G", "4">>
    /\ validImageConfigs[3].imagePath = ImagePath("E002")

(* C20 as stated: every placement of the plan has an image that passes the *)
(* full admission filter when the plan is made, and a row whose image      *)
(* fails a check of the filter is absent from the plan.                    *)
C20_AsStated ==
    PlanMade =>
        /\ \A k \in 1..Len(validImageConfigs) :
               isValidImageFile(FileOf(validImageConfigs[k].imagePath))
        /\ \A j \in 1..Len(imageConfigs) :
               ~isValidImageFile(FileOf(imageConfigs[j].imagePath)) =>
                   \A k \in 1..Len(validImageConfigs) :
                       validImageConfigs[k] # imageConfigs[j]

(* The sub-sequence of a sequence at the positions of a set, in order *)
RECURSIVE Restrict(_, _)
Restrict(seq, keep) ==
    IF seq = <<>> THEN <<>>
    ELSE Restrict(SubSeq(seq, 1, Len(seq) - 1), keep)
         \o (IF Len(seq) \in keep THEN <<seq[Len(seq)]>> ELSE <<>>)

(* C20, amended: every placement of the plan has an image file that exists *)
(* when the plan is made, a row whose image file is missing is absent from *)
(* the plan, and the rows whose file exists are all planned, in order.     *)
C20_ExistingImagesPlanned ==
    PlanMade =>
        validImageConfigs =
            Restrict(imageConfigs,
                     {j \in 1..Len(imageConfigs) :
                         qrFiles[staffList[j].id.v] # FileMissing})

C20_Witness ==
    /\ stage = "planned"
    /\ Len(imageConfigs) = 3
    /\ Len(validImageConfigs) = 2
    /\ qrFiles["E001"] = FileEmpty
    /\ qrFiles["E002"] = FileMissing
    /\ validImageConfigs[1].cell = <<"G", "2">>
    /\ validImageConfigs[2].cell = <<"G", "4">>

-----------------------------------------------------------------------------
(* The generation loop of index()                                          *)

Looped == stage \notin {"idle", "read", "extracted"} /\ staffList # <<>>

Successes == {j \in 1..Len(qrAttempts) : qrAttempts[j].ok}

(* C21: a failure to generate the image of one identifier does not abort   *)
(* the loop: every identifier of the roster is attempted exactly once, in  *)
(* roster order, and the reported count is the number of identifiers whose *)
(* generation succeeded.                                                   *)
C21_LoopAttemptsAll ==
    Looped =>
        /\ Len(qrAttempts) = Len(staffList)
        /\ \A j \in 1..Len(staffList) : qrAttempts[j].id = staffList[j].id.v
        /\ qrSuccessCount = Cardinality(Successes)

C21_Witness ==
    /\ stage = "generated"
    /\ Len(staffList) = 3
    /\ qrAttempts = <<[id |-> "E001", ok |-> FALSE],
                      [id |-> "E002", ok |-> TRUE],
                      [id |-> "E001", ok |-> FALSE]>>
    /\ qrSuccessCount = 1

-----------------------------------------------------------------------------
(* generateQRCode on its own: up to MaxCalls calls on one service, the     *)
(* output folder missing or holding files of an earlier run                *)

MaxCalls == 3

QrInit ==
    /\ MergeIdle
    /\ CodecIdle
    /\ AdmitIdle
    /\ stage = "idle"
    /\ data = <<>>
    /\ staffList = <<>>
    /\ imageConfigs = <<>>
    /\ validImageConfigs = <<>>
    /\ folderExists \in BOOLEAN
    /\ qrFiles \in [Ids -> {FileMissing, FileGood, FileOversize}]
    /\ ~folderExists => qrFiles = [id \in Ids |-> FileMissing]
    /\ GenIdle
    /\ RunIdle

CallGenerateQRCode ==
    /\ stage = "idle"
    /\ Len(qrAttempts) < MaxCalls
    /\ \E id \in Ids : \E o \in generateQRCode(id, folderExists, qrFiles) :
           /\ folderExists' = o.folderExists
           /\ qrFiles' = o.qrFiles
           /\ qrReturn' = {[id |-> id, ok |-> o.ok, value |-> o.value,
                            error |-> o.error]}
           /\ qrAttempts' = Append(qrAttempts, [id |-> id, ok |-> o.ok])
    /\ UNCHANGED <<stage, data, staffList, imageConfigs, validImageConfigs,
                   qrSuccessCount, loopIndex, qrPauses>>
    /\ UNCHANGED <<mergeVars, codecVars, admitVars, runVars>>

QrNext == CallGenerateQRCode

QrSpec == QrInit /\ [][QrNext]_vars

(* C22 as stated: a successful generate(identifier) ensures the output     *)
(* directory exists, materializes the image at outputDir/<identifier>.png  *)
(* and returns that path; if the encoder errors it fails with an encoding  *)
(* failure and returns nothing.                                            *)
C22_AsStated ==
    \A r \in qrReturn :
        IF r.ok
        THEN /\ folderExists
             /\ qrFiles[r.id] = FileGood
             /\ r.value = ImagePath(r.id)
        ELSE /\ r.value = <<>>
             /\ r.error = "Failed to generate QR code"

(* C22, amended: a successful generateQRCode(id) ensures the output        *)
(* directory exists, materializes the image at <id>.png in it and returns  *)
(* the data URL of the encoded identifier; on an error it fails with the   *)
(* generation failure and returns nothing.                                 *)
C22_ReturnsDataURL ==
    \A r \in qrReturn :
        IF r.ok
        THEN /\ folderExists
             /\ qrFiles[r.id] = FileGood
             /\ r.value = <<"data:image/png;base64", r.id>>
             /\ r.error = ""
        ELSE /\ r.value = <<>>
             /\ r.error = "Failed to generate QR code"

C22_Witness ==
    /\ qrReturn = {[id |-> "E002", ok |-> TRUE,
                    value |-> <<"data:image/png;base64", "E002">>,
                    error |-> ""]}
    /\ Len(qrAttempts) = 1
    /\ qrFiles["E002"] = FileGood
    /\ qrFiles["E001"] = FileMissing

-----------------------------------------------------------------------------
(* Target rows of the plan.  data[r] is row r of the worksheet when the    *)
(* reader skipped no empty row.                                            *)

TargetRow(config) == parseCellAddress(config.cell).row

C29_NoRenumbering ==
    PlanMade =>
        /\ \A k \in 1..Len(validImageConfigs) :
               LET at == parseCellAddress(validImageConfigs[k].cell)
               IN  /\ at.ok
                   /\ at.col = 7
                   /\ at.row >= 2
                   /\ at.row - 1 \in 1..Len(staffList)
                   /\ validImageConfigs[k].imagePath
                          = ImagePath(staffList[at.row - 1].id.v)
        /\ \A k, l \in 1..Len(validImageConfigs) :
               k < l => TargetRow(validImageConfigs[k])
                           < TargetRow(validImageConfigs[l])

C29_Witness ==
    /\ stage = "planned"
    /\ Len(staffList) = 3
    /\ qrFiles[staffList[1].id.v] = FileMissing
    /\ Len(validImageConfigs) = 2
    /\ TargetRow(validImageConfigs[1]) = 3
    /\ TargetRow(validImageConfigs[2]) = 4

-----------------------------------------------------------------------------
(* The image folders.  A folder has the files <id>.png, possibly a stray   *)
(* regular file that is not named after an identifier of the roster, and   *)
(* possibly one subdirectory, empty or with a file of its own.             *)

FolderNames == {"qrcode", "member_qrcode", "family_qrcode"}

NoFiles == [id \in Ids |-> FileMissing]

NoFolder ==
    [exists |-> FALSE, files |-> NoFiles, stray |-> FALSE,
     subdir |-> "absent"]

FolderStates ==
    {NoFolder} \cup
    [exists : {TRUE}, files : [Ids -> {FileMissing, FileGood, FileEmpty}],
     stray : BOOLEAN, subdir : {"absent", "empty", "with-file"}]

(* clearFolder(folder): deletes the regular files directly inside the      *)
(* folder and returns true; returns false, deleting nothing, when the      *)
(* folder is missing or a file system call fails.                          *)

(* Variant: the folder is removed recursively and created again *)
clearFolderRecursive(folder) ==
    IF ~folder.exists
    THEN {[cleared |-> FALSE, folder |-> folder]}
    ELSE {[cleared |-> TRUE,
           folder |-> [folder EXCEPT !.files = NoFiles, !.stray = FALSE,
                                     !.subdir = "absent"]],
          [cleared |-> FALSE, folder |-> folder]}

clearFolder(folder) ==
    IF ~folder.exists
    THEN {[cleared |-> FALSE, folder |-> folder]}
    ELSE {[cleared |-> TRUE,
           folder |-> [folder EXCEPT !.files = NoFiles, !.stray = FALSE]],
          [cleared |-> FALSE, folder |-> folder]}

ClearInit ==
    /\ MergeIdle
    /\ CodecIdle
    /\ AdmitIdle
    /\ PlanIdle
    /\ GenIdle
    /\ pass = ""
    /\ step = "idle"
    /\ ran = <<>>
    /\ disk = <<>>
    /\ sheets = {}
    /\ folders \in [FolderNames -> FolderStates]
    /\ folders["qrcode"] = NoFolder
    /\ cleared = {}
    /\ rosters = <<>>
    /\ generated = <<>>
    /\ plans = <<>>
    /\ results = <<>>
    /\ log = {}
    /\ failure = {}
    /\ verifyReads = <<>>

CallClearFolder ==
    /\ step = "idle"
    /\ cleared = {}
    /\ \E name \in {"member_qrcode", "family_qrcode"} :
           \E o \in clearFolder(folders[name]) :
               /\ folders' = [folders EXCEPT ![name] = o.folder]
               /\ cleared' = {[name |-> name, value |-> o.cleared,
                               before |-> folders]}
    /\ UNCHANGED <<pass, step, ran, disk, sheets, rosters, generated, plans,
                   results, log, failure>>
    /\ UNCHANGED verifyReads
    /\ UNCHANGED <<mergeVars, codecVars, admitVars, planVars, genVars>>

ClearNext == CallClearFolder

ClearSpec == ClearInit /\ [][ClearNext]_vars

(* The regular files directly inside a folder *)
RegularFiles(folder) ==
    {id \in Ids : folder.files[id].exists}
        \cup (IF folder.stray THEN {"stray"} ELSE {})

(* C26: clearing an image folder deletes exactly the regular files         *)
(* directly inside it and leaves every subdirectory and its contents       *)
(* untouched; of 3 files and 1 subdirectory exactly the 3 files go.        *)
C26_ClearKeepsSubdirectories ==
    \A c \in cleared :
        c.value =>
            /\ RegularFiles(folders[c.name]) = {}
            /\ folders[c.name].exists
            /\ folders[c.name].subdir = c.before[c.name].subdir
            /\ \A other \in FolderNames \ {c.name} :
                   folders[other] = c.before[other]

C26_Witness ==
    \E c \in cleared :
        /\ c.value
        /\ c.name = "member_qrcode"
        /\ Cardinality(RegularFiles(c.before[c.name])) = 3
        /\ c.before[c.name].subdir = "with-file"
        /\ RegularFiles(folders[c.name]) = {}
        /\ folders[c.name].subdir = "with-file"

-----------------------------------------------------------------------------
(* index() of the two-worksheet run: the pass over the worksheet of the    *)
(* members, then the pass over the worksheet of the family members.  Each  *)
(* pass reads and extracts its roster, clears its image folder, generates  *)
(* the images, builds its plan, and merges the plan into the working copy  *)
(* record_with_qrcode.xlsx, which the first pass copies from record.xlsx.  *)

MaxRunRows == 1

filePath == <<"record", ".xlsx">>

newFilePath == ReplaceFirst(filePath, ".xlsx", <<"_with_qrcode", ".xlsx">>)

RunPaths ==
    {filePath, newFilePath, BackupPathOf(filePath),
     BackupPathOf(newFilePath)}

(* What a workbook file holds: merged is the set of worksheets that had    *)
(* images merged into them                                                 *)
GoneFile == [kind |-> "absent", merged |-> {}]

TornFile == [kind |-> "partial", merged |-> {}]

RecordFile == [kind |-> "workbook", merged |-> {}]

FolderOf(p) == IF p = "members" THEN "member_qrcode" ELSE "family_qrcode"

RunRosters ==
    {<<>>} \cup
    UNION {{<<Header>> \o [r \in 1..n |-> RowOf(kinds[r], r)] :
               kinds \in [1..n -> {"E001", "E002", "null"}]} :
           n \in 0..MaxRunRows}

(* An image folder before the run: missing, or left by an earlier run     *)
RunFolders ==
    {NoFolder,
     [exists |-> TRUE,
      files |-> [id \in Ids |-> IF id = "E001" THEN FileGood ELSE FileEmpty],
      stray |-> TRUE, subdir |-> "with-file"]}

RunInit ==
    /\ MergeIdle
    /\ CodecIdle
    /\ AdmitIdle
    /\ PlanIdle
    /\ GenIdle
    /\ pass = "members"
    /\ step = "read"
    /\ ran = <<>>
    /\ \E original \in {RecordFile, GoneFile} :
       \E copy \in {GoneFile, [kind |-> "workbook", merged |-> {"members"}]} :
           disk = [path \in RunPaths |->
                      IF path = filePath THEN original
                      ELSE IF path = newFilePath THEN copy
                      ELSE GoneFile]
    /\ sheets \in {{"members", "family"}, {"members"}}
    /\ folders \in [FolderNames -> RunFolders]
    /\ folders["qrcode"] = NoFolder
    /\ cleared = {}
    /\ rosters = [p \in {"members", "family"} |-> <<>>]
    /\ generated = [p \in {"members", "family"} |-> {}]
    /\ plans = [p \in {"members", "family"} |-> <<>>]
    /\ results = [p \in {"members", "family"} |-> {}]
    /\ log = {}
    /\ failure = {}
    /\ verifyReads = [p \in {"members", "family"} |-> {}]

Line(p, kind, text, count) ==
    [pass |-> p, kind |-> kind, text |-> text, count |-> count]

(* throw inside the try block: the catch block logs the error and the      *)
(* recovery advice and rethrows it                                         *)
Raise(error) ==
    /\ step' = "thrown"
    /\ failure' = {error}
    /\ log' = log \cup {Line(pass, "error", error, 0),
                         Line(pass, "advice", "", 0)}

Ran == ran' = Append(ran, <<pass, step>>)

(* readSingleExcelFile(filePath, {worksheetName}) and the extraction of    *)
(* the roster; a failed read and an empty roster are thrown                *)
ReadRoster ==
    /\ step = "read"
    /\ Ran
    /\ \/ /\ Raise("read-failed")
          /\ UNCHANGED rosters
       \/ /\ disk[filePath].kind = "workbook"
          /\ pass \in sheets
          /\ \E rows \in RunRosters :
                LET list == SelectSeq([r \in 1..Len(Slice1(rows)) |->
                                          StaffOf(Slice1(rows)[r])], IsStaff)
                IN  IF list = <<>>
                    THEN /\ Raise("no-valid-rows")
                         /\ UNCHANGED rosters
                    ELSE /\ rosters' = [rosters EXCEPT ![pass] = list]
                         /\ step' = "clear"
                         /\ UNCHANGED <<log, failure>>
    /\ UNCHANGED <<pass, disk, sheets, folders, cleared, generated, plans,
                   results>>
    /\ UNCHANGED verifyReads
    /\ UNCHANGED <<mergeVars, codecVars, admitVars, planVars, genVars>>

(* clearFolder(member_qrcode_folder), clearFolder(family_qrcode_folder) *)
ClearImages ==
    /\ step = "clear"
    /\ Ran
    /\ \E o \in clearFolder(folders[FolderOf(pass)]) :
           /\ folders' = [folders EXCEPT ![FolderOf(pass)] = o.folder]
           /\ cleared' = {[name |-> FolderOf(pass), value |-> o.cleared,
                           before |-> folders]}
           /\ log' = IF o.cleared
                     THEN log \cup {Line(pass, "cleared", "", 0)}
                     ELSE log
    /\ step' = "generate"
    /\ UNCHANGED <<pass, disk, sheets, rosters, generated, plans, results,
                   failure>>
    /\ UNCHANGED verifyReads
    /\ UNCHANGED <<mergeVars, codecVars, admitVars, planVars, genVars>>

(* The generation loop of a pass: generateQRCode writes into the folder    *)
(* qrcode whichever worksheet is processed                                 *)
RECURSIVE GenerateLoopFrom(_, _, _)
GenerateLoopFrom(start, list, n) ==
    IF n = 0 THEN {start}
    ELSE UNION {{AfterAttempt(loop, list[n].id.v, o) :
                    o \in generateQRCode(list[n].id.v, loop.folderExists,
                                         loop.qrFiles)} :
                loop \in GenerateLoopFrom(start, list, n - 1)}

GenerateImages ==
    /\ step = "generate"
    /\ Ran
    /\ \E loop \in GenerateLoopFrom(
                        [folderExists |-> folders["qrcode"].exists,
                         qrFiles |-> folders["qrcode"].files,
                         qrSuccessCount |-> 0, qrAttempts |-> <<>>],
                        rosters[pass], Len(rosters[pass])) :
           /\ folders' = [folders EXCEPT
                              !["qrcode"].exists = loop.folderExists,
                              !["qrcode"].files = loop.qrFiles]
           /\ generated' =
                  [generated EXCEPT
                      ![pass] = {loop.qrAttempts[j].id :
                                    j \in {k \in 1..Len(loop.qrAttempts) :
                                              loop.qrAttempts[k].ok}}]
           /\ log' = log \cup {Line(pass, "generated", "",
                                     loop.qrSuccessCount)}
    /\ step' = "plan"
    /\ UNCHANGED <<pass, disk, sheets, cleared, rosters, plans, results,
                   failure>>
    /\ UNCHANGED verifyReads
    /\ UNCHANGED <<mergeVars, codecVars, admitVars, planVars, genVars>>

(* The folder check, imageConfigs and validImageConfigs of a pass.  Both   *)
(* passes check member_qrcode_folder; each filters on its own folder.      *)
RunConfigs(p) ==
    [j \in 1..Len(rosters[p]) |->
        [id |-> rosters[p][j].id.v, cell |-> PlanCell(j - 1)]]

RunFileOf(p, config) == folders[FolderOf(p)].files[config.id]

PlanFileExists(config) == RunFileOf(pass, config).exists

BuildPlan ==
    /\ step = "plan"
    /\ Ran
    /\ IF ~folders["member_qrcode"].exists
       THEN /\ Raise("folder-missing")
            /\ UNCHANGED plans
       ELSE /\ plans' = [plans EXCEPT
                            ![pass] = SelectSeq(RunConfigs(pass),
                                                PlanFileExists)]
            /\ IF plans'[pass] = <<>>
               THEN /\ step' = "returned"
                    /\ log' = log \cup {Line(pass, "nothing-to-insert", "", 0)}
               ELSE /\ step' = IF pass = "members" THEN "copy" ELSE "merge"
                    /\ UNCHANGED log
            /\ UNCHANGED failure
    /\ UNCHANGED <<pass, disk, sheets, folders, cleared, rosters, generated,
                   results>>
    /\ UNCHANGED verifyReads
    /\ UNCHANGED <<mergeVars, codecVars, admitVars, planVars, genVars>>

(* fs.copyFileSync(src, dest) on the workbook files *)
CopyOutcomes(d, src, dest) ==
    IF d[src].kind = "absent"
    THEN {[ok |-> FALSE, disk |-> d]}
    ELSE {[ok |-> TRUE, disk |-> [d EXCEPT ![dest] = d[src]]],
          [ok |-> FALSE, disk |-> d],
          [ok |-> FALSE, disk |-> [d EXCEPT ![dest] = TornFile]]}

(* The working copy: copyFileSync(filePath, newFilePath) in a try block    *)
(* whose catch only warns                                                  *)
CopyWorkbook ==
    /\ step = "copy"
    /\ Ran
    /\ \E o \in CopyOutcomes(disk, filePath, newFilePath) :
           /\ disk' = o.disk
           /\ log' = log \cup {Line(pass, IF o.ok THEN "copied"
                                          ELSE "copy-warning", "", 0)}
    /\ step' = "merge"
    /\ UNCHANGED <<pass, sheets, folders, cleared, rosters, generated, plans,
                   results, failure>>
    /\ UNCHANGED verifyReads
    /\ UNCHANGED <<mergeVars, codecVars, admitVars, planVars, genVars>>

(* insertImagesSafely(target, images, sheet) as the run sees it: its       *)
(* result and the workbook files it leaves.  valid is the number of images *)
(* that pass isValidImageFile.                                             *)
Inserted(count) == [success |-> TRUE, imagesInserted |-> count, error |-> ""]

NotInserted(error) ==
    [success |-> FALSE, imagesInserted |-> 0, error |-> error]

(* The catch block: the backup is copied over the target when there is    *)
(* one; said is what the merger logs about it                              *)
RolledBack(d, target, hasBackup) ==
    IF hasBackup /\ d[BackupPathOf(target)].kind # "absent"
    THEN {[disk |-> o.disk,
           said |-> IF o.ok THEN {"restored"} ELSE {"restore-failed"}] :
             o \in CopyOutcomes(d, BackupPathOf(target), target)}
    ELSE {[disk |-> d, said |-> {}]}

(* Variant: the workbook written holds the new images only *)
MergedAlone(file, p) == [file EXCEPT !.merged = {p}]

(* readFile, addImage, writeFile: the workbook written is the workbook     *)
(* read with the images of the pass added                                  *)
MergedInto(file, p) == [file EXCEPT !.merged = @ \cup {p}]

AfterBackup(d, target, hasBackup, p, valid) ==
    IF valid = 0
    THEN {[result |-> Inserted(0), disk |-> d, said |-> {}]}
    ELSE {[result |-> NotInserted("read-failed"), disk |-> back.disk,
           said |-> back.said] :
             back \in RolledBack(d, target, hasBackup)}
         \cup
         (IF d[target].kind # "workbook" THEN {}
          ELSE IF p \notin sheets
          THEN {[result |-> NotInserted("worksheet-not-found"),
                 disk |-> back.disk, said |-> back.said] :
                   back \in RolledBack(d, target, hasBackup)}
          ELSE {[result |-> Inserted(count),
                 disk |-> [d EXCEPT ![target] = MergedInto(@, p)],
                 said |-> {}] :
                   count \in 0..valid}
               \cup
               UNION {{[result |-> NotInserted("write-failed"),
                        disk |-> back.disk, said |-> back.said] :
                          back \in RolledBack(torn, target, hasBackup)} :
                      torn \in {d, [d EXCEPT ![target] = TornFile]}})

MergeOutcomes(d, target, p, valid) ==
    IF d[target].kind = "absent"
    THEN {[result |-> NotInserted("workbook-not-found"), disk |-> d,
           said |-> {}]}
    ELSE UNION {{[result |-> o.result, disk |-> o.disk,
                  said |-> o.said \cup
                           (IF b.ok THEN {} ELSE {"backup-failed"})] :
                    o \in AfterBackup(b.disk, target, b.ok, p, valid)} :
                b \in CopyOutcomes(d, target, BackupPathOf(target))}

ValidCount(p) ==
    Cardinality({k \in 1..Len(plans[p]) :
                    isValidImageFile(RunFileOf(p, plans[p][k]))})

(* Variant: the images are merged into the workbook that was read *)
MergeTargetOriginal == filePath

MergeTarget == newFilePath

MergeImages ==
    /\ step = "merge"
    /\ Ran
    /\ \E o \in MergeOutcomes(disk, MergeTarget, pass, ValidCount(pass)) :
           /\ disk' = o.disk
           /\ results' = [results EXCEPT ![pass] = {o.result}]
           /\ log' = log \cup {Line(pass, kind, "", 0) : kind \in o.said}
    /\ step' = "report"
    /\ UNCHANGED <<pass, sheets, folders, cleared, rosters, generated, plans,
                   failure>>
    /\ UNCHANGED verifyReads
    /\ UNCHANGED <<mergeVars, codecVars, admitVars, planVars, genVars>>

(* The report of a merge.  `imagesInserted || "N/A"` prints N/A for 0, and *)
(* `imagesInserted && imagesInserted < length` is false for 0.  The error  *)
(* thrown for a failed merge quotes insertResult, the result of the first  *)
(* pass, in both passes.                                                   *)
MessageOf(result) ==
    IF \E r \in result : r.error # ""
    THEN (CHOOSE r \in result : TRUE).error
    ELSE "undefined"

ReportLines(p, r) ==
    {Line(p, "inserted", IF r.imagesInserted = 0 THEN "N/A" ELSE "",
          r.imagesInserted)}
    \cup (IF r.imagesInserted # 0 /\ r.imagesInserted < Len(plans[p])
          THEN {Line(p, "shortfall", "", Len(plans[p]) - r.imagesInserted)}
          ELSE {})

(* Variant: a failed merge is reported and the run goes on *)
ReportResultGoesOn ==
    /\ step = "report"
    /\ Ran
    /\ \E r \in results[pass] :
           log' = log \cup (IF r.success THEN ReportLines(pass, r)
                            ELSE {Line(pass, "error", r.error, 0)})
    /\ step' = "verify"
    /\ UNCHANGED <<pass, disk, sheets, folders, cleared, rosters, generated,
                   plans, results, failure>>
    /\ UNCHANGED verifyReads
    /\ UNCHANGED <<mergeVars, codecVars, admitVars, planVars, genVars>>

ReportResult ==
    /\ step = "report"
    /\ Ran
    /\ \E r \in results[pass] :
           IF r.success
           THEN /\ log' = log \cup ReportLines(pass, r)
                /\ step' = "verify"
                /\ UNCHANGED failure
           ELSE Raise(MessageOf(results["members"]))
    /\ UNCHANGED <<pass, disk, sheets, folders, cleared, rosters, generated,
                   plans, results>>
    /\ UNCHANGED verifyReads
    /\ UNCHANGED <<mergeVars, codecVars, admitVars, planVars, genVars>>

(* The verification re-reads filePath; whatever it finds is only logged.   *)
(* After the first pass the second begins, after the second index returns. *)
(* readSingleExcelFile(filePath, {worksheetName}) in both passes *)
VerifyTarget == filePath

(* The final check of a pass: a read that fails, by its result or by an    *)
(* exception, is only warned about                                         *)
VerifyResult ==
    /\ step = "verify"
    /\ Ran
    /\ \E ok \in (IF disk[VerifyTarget].kind = "workbook" /\ pass \in sheets
                  THEN BOOLEAN ELSE {FALSE}) :
           /\ log' = log \cup {Line(pass, IF ok THEN "verified"
                                         ELSE "verify-warning", "", 0)}
           /\ verifyReads' = [verifyReads EXCEPT
                                 ![pass] = {[path |-> VerifyTarget,
                                             ok |-> ok]}]
    /\ IF pass = "members"
       THEN /\ pass' = "family"
            /\ step' = "read"
       ELSE /\ step' = "returned"
            /\ UNCHANGED pass
    /\ UNCHANGED <<disk, sheets, folders, cleared, rosters, generated, plans,
                   results, failure>>
    /\ UNCHANGED <<mergeVars, codecVars, admitVars, planVars, genVars>>

RunNext ==
    \/ ReadRoster
    \/ ClearImages
    \/ GenerateImages
    \/ BuildPlan
    \/ CopyWorkbook
    \/ MergeImages
    \/ ReportResult
    \/ VerifyResult

RunSpec == RunInit /\ [][RunNext]_vars

(* Vocabulary of the run claims *)

Executed(p, name) == \E j \in 1..Len(ran) : ran[j] = <<p, name>>

Entered(p) == \E j \in 1..Len(ran) : ran[j][1] = p

ExtractionFailed(p) == Executed(p, "read") /\ rosters[p] = <<>>

MergeFailed(p) ==
    Executed(p, "report") /\ \E r \in results[p] : ~r.success

PlanBuilt(p) ==
    plans[p] # <<>> \/ Line(p, "nothing-to-insert", "", 0) \in log

(* C23: if the extraction or the merge of the primary worksheet fails, no  *)
(* step of the secondary worksheet's pass is executed and the run ends by  *)
(* throwing that failure to the caller.                                    *)
C23_PrimaryFailureEndsRun ==
    (ExtractionFailed("members") \/ MergeFailed("members")) =>
        /\ step = "thrown"
        /\ ~Entered("family")
        /\ IF MergeFailed("members")
           THEN \E r \in results["members"] : failure = {r.error}
           ELSE failure \in {{"read-failed"}, {"no-valid-rows"}}

C23_Witness ==
    /\ step = "thrown"
    /\ results["members"] = {NotInserted("write-failed")}
    /\ failure = {"write-failed"}
    /\ disk[newFilePath] = TornFile

(* C24: the original workbook is never written: every merge and every     *)
(* rollback targets the working copy, so the original file at the end of   *)
(* the run is the file at its start, on success and on failure.            *)
C24_OriginalNeverWritten == [][disk'[filePath] = disk[filePath]]_vars

C24_Witness ==
    /\ step = "returned"
    /\ disk[filePath] = RecordFile
    /\ disk[newFilePath] =
          [kind |-> "workbook", merged |-> {"members", "family"}]
    /\ \E r \in results["family"] : r.success

(* C25: whenever a merge returns success with fewer images inserted than   *)
(* placements planned, zero included, the report states the inserted       *)
(* count and signals the shortfall.                                       *)
C25_ShortfallReported ==
    \A p \in {"members", "family"} :
        \A r \in results[p] :
            (/\ Executed(p, "report")
             /\ r.success
             /\ r.imagesInserted < Len(plans[p])) =>
                /\ Line(p, "inserted", "", r.imagesInserted) \in log
                /\ Line(p, "shortfall", "",
                        Len(plans[p]) - r.imagesInserted) \in log

(* C27: in each pass, every identifier whose image generation succeeded    *)
(* in that pass has a placement in that pass's plan.                       *)
C27_GeneratedArePlanned ==
    \A p \in {"members", "family"} :
        PlanBuilt(p) =>
            \A id \in generated[p] :
                \E k \in 1..Len(plans[p]) : plans[p][k].id = id

(* C30: when the plan of the primary worksheet is empty only its merge is  *)
(* skipped: the run does not return before the pass of the secondary       *)
(* worksheet has been executed.                                            *)
C30_SecondaryStillRuns ==
    (step = "returned" /\ plans["members"] = <<>>) =>
        /\ Executed("family", "read")
        /\ Executed("family", "plan")

-----------------------------------------------------------------------------
(* Admission and insertion, outcome of the merge call *)

(* C34: every placement that passes the admission filter has a format the  *)
(* insertion accepts: no placement admitted by isValidImageFile is         *)
(* rejected by insertSingleImage because of its file extension.            *)
C34_AdmittedFormatInsertable ==
    \A k \in Range(attempted) :
        isValidImageFile(images[k]) =>
            insertSingleImage(images[k]).why # "format"

(* The write of the merged workbook returned *)
Persisted == Happened("persist") /\ Target = Merged

(* The admission filter ran and kept no placement *)
NothingAdmissible == Happened("filter") /\ validImages = <<>>

(* An error reached the catch block of the call *)
StructuralFailure == thrown # {}

(* C35: every returned outcome is well formed.  success is true exactly    *)
(* when the workbook was persisted or the filter kept nothing, and then    *)
(* 0 <= imagesInserted <= admissible placements <= input placements and    *)
(* no error is set, also when every insertion failed; success is false     *)
(* exactly when a structural failure occurred, and then the error is set   *)
(* and no imagesInserted count is reported.                                *)
C35_OutcomeWellFormed ==
    Returned =>
        /\ Result.success <=> (Persisted \/ NothingAdmissible)
        /\ Result.success =>
              /\ Result.error = {}
              /\ \E c \in 0..Len(validImages) : Result.imagesInserted = {c}
              /\ Len(validImages) <= Len(images)
        /\ ~Result.success <=> StructuralFailure
        /\ ~Result.success =>
              /\ Result.error # {}
              /\ Result.error = thrown
              /\ Result.imagesInserted = {}

C35_Witness ==
    /\ pc = "Done"
    /\ Len(validImages) = 1
    /\ attempted = validImages
    /\ succeeded = {}
    /\ Happened("persist")
    /\ Result.success
    /\ Result.imagesInserted = {0}

-----------------------------------------------------------------------------
(* index() from the generation loop to the return of the merge, the loop   *)
(* taken one iteration at a time.  The roster names the two identifiers in *)
(* turn; the calls of the loop are counted, not recorded.                  *)

MaxStaff == 21

IndexRoster(n) ==
    <<Header>> \o
    [r \in 1..n |-> RowOf(IF r % 2 = 1 THEN "E001" ELSE "E002", r)]

IndexInit ==
    /\ MergeIdle
    /\ CodecIdle
    /\ AdmitIdle
    /\ RunIdle
    /\ GenIdle
    /\ stage = "extracted"
    /\ data \in {IndexRoster(n) : n \in 1..MaxStaff}
    /\ staffList = SelectSeq([r \in 1..Len(Slice1(data)) |->
                                  StaffOf(Slice1(data)[r])], IsStaff)
    /\ folderExists \in BOOLEAN
    /\ qrFiles = [id \in Ids |-> FileMissing]
    /\ imageConfigs = <<>>
    /\ validImageConfigs = <<>>

(* Variant: the test is made on i instead of i + 1 *)
PauseAfterIndex(index) == index % 10 = 0

(* if ((i + 1) % 10 === 0) await ...setTimeout(resolve, 200) *)
PauseAfter(index) == (index + 1) % 10 = 0

(* One iteration of the loop: the call inside its try block, then the test *)
(* of the pause, then i++                                                  *)
GenerateOne ==
    /\ stage = "extracted"
    /\ loopIndex < Len(staffList)
    /\ LET id == staffList[loopIndex + 1].id.v
           loop == [folderExists |-> folderExists, qrFiles |-> qrFiles,
                    qrSuccessCount |-> qrSuccessCount, qrAttempts |-> <<>>]
       IN  \E o \in generateQRCode(id, folderExists, qrFiles) :
               /\ folderExists' = AfterAttempt(loop, id, o).folderExists
               /\ qrFiles' = AfterAttempt(loop, id, o).qrFiles
               /\ qrSuccessCount' = AfterAttempt(loop, id, o).qrSuccessCount
    /\ qrPauses' = IF PauseAfter(loopIndex)
                   THEN Append(qrPauses, loopIndex + 1)
                   ELSE qrPauses
    /\ loopIndex' = loopIndex + 1
    /\ stage' = IF loopIndex' < Len(staffList) THEN "extracted"
                ELSE "generated"
    /\ UNCHANGED <<data, staffList, imageConfigs, validImageConfigs,
                   qrAttempts, qrReturn>>
    /\ UNCHANGED <<mergeVars, codecVars, admitVars, runVars>>

(* The placement insertImagesSafely is handed for a planned image *)
PlacementOf(config) ==
    [exists |-> FileOf(config.imagePath).exists,
     statOk |-> FileOf(config.imagePath).statOk,
     size |-> FileOf(config.imagePath).size,
     ext |-> config.imagePath[4],
     cell |-> config.cell,
     primary |-> TRUE,
     fallback |-> TRUE]

(* The backup copy of the workbook, whose failure is only warned about,    *)
(* then insertImagesSafely(filePath, validImageConfigs, worksheet)         *)
CallInsertImagesSafely ==
    /\ stage = "planned"
    /\ pc = "Idle"
    /\ \E r \in CopyFileOutcomes(PathLower, IndexBackupPath) :
           /\ fs' = r.fs
           /\ preBytes' = r.fs[PathLower]
    /\ excelPath' = PathLower
    /\ images' = [k \in 1..Len(validImageConfigs) |->
                     PlacementOf(validImageConfigs[k])]
    /\ worksheetName' = WorkbookSheets[1]
    /\ pc' = "Validating"
    /\ trace' = <<"call">>
    /\ stage' = "merging"
    /\ UNCHANGED <<locals, thrown, outcome, history>>
    /\ UNCHANGED <<data, folderExists, qrFiles, staffList, imageConfigs,
                   validImageConfigs>>
    /\ UNCHANGED <<codecVars, admitVars, genVars, runVars>>

IndexNext ==
    \/ GenerateOne
    \/ PrepareConfigs
    \/ FilterConfigs
    \/ CallInsertImagesSafely
    \/ CheckExists
    \/ createBackup
    \/ FilterImages
    \/ LoadWorkbook
    \/ SelectWorksheet
    \/ InsertBatch
    \/ Persist
    \/ Rollback

IndexSpec == IndexInit /\ [][IndexNext]_vars

(* C33: the generation loop pauses after its i-th call exactly when i is a *)
(* multiple of 10, whether or not the call failed.  The merge pauses       *)
(* exactly once between two consecutive batches, never before the first    *)
(* and never after the last one: a merge of N >= 1 admissible placements   *)
(* pauses ceil(N/5) - 1 times.                                             *)
C33_PausesAtStatedPoints ==
    /\ \A n \in 1..loopIndex :
          Cardinality({k \in 1..Len(qrPauses) : qrPauses[k] = n})
            = (IF n % 10 = 0 THEN 1 ELSE 0)
    /\ \A k \in 1..Len(qrPauses) : qrPauses[k] \in 1..loopIndex
    /\ \A k \in 1..Len(trace) :
          trace[k] = "pause" =>
              /\ k > 1
              /\ trace[k - 1] = "batch"
              /\ k < Len(trace) => trace[k + 1] = "batch"
              /\ k = Len(trace) => pc = "Inserting"
    /\ \A k \in 1..(Len(trace) - 1) :
          trace[k] = "batch" => trace[k + 1] \in {"pause", "persist"}
    /\ LoopFinished =>
          /\ Len(validImages) >= 1
          /\ Count(trace, "batch") = CeilDiv(Len(validImages), 5)
          /\ Count(trace, "pause") = CeilDiv(Len(validImages), 5) - 1

C33_Witness ==
    /\ pc = "Done"
    /\ Len(staffList) = 21
    /\ qrSuccessCount < 21
    /\ qrPauses = <<10, 20>>
    /\ Len(validImages) = 21
    /\ Count(trace, "pause") = 4
    /\ trace[Len(trace) - 1] = "batch"

-----------------------------------------------------------------------------
(* The working copy across the two passes, and the final check of a pass *)

PrimaryInserted ==
    \E r \in results["members"] : r.success /\ r.imagesInserted >= 1

SecondaryMerged == results["family"] # {}

HoldsPrimaryImages == "members" \in disk[newFilePath].merged

C32_VerifiesMergedFile ==
    \A p \in {"members", "family"} :
        \A v \in verifyReads[p] :
            /\ v.path = MergeTarget
            /\ ~v.ok =>
                  /\ Line(p, "verify-warning", "", 0) \in log
                  /\ p = "family" => (step = "returned" /\ failure = {})
                  /\ p = "members" => Entered("family")

====
